---- MODULE Spec2Model ----
(***************************************************************************)
(* A model of the v8-heap-analyzer core: the heap graph loaded from a      *)
(* snapshot, the Lengauer-Tarjan dominator engine, the dominator tree with *)
(* retained sizes, and the iterative retained-size solver.                 *)
(***************************************************************************)
EXTENDS Integers, Sequences, FiniteSets, TLC

VARIABLES pc, snap, graph, roots, ltOut, tree, compact, rsOut, analysis

vars == <<pc, snap, graph, roots, ltOut, tree, compact, rsOut, analysis>>

(***************************************************************************)
(* Bounds of the model and program constants.                              *)
(***************************************************************************)
\* number of nodes of the snapshots explored
NodeCount == 4
\* largest number of edges of a snapshot in the single-root dominator runs
MaxEdges == 5
\* largest number of edges of a snapshot in the other runs
MaxEdgesShort == 4
\* largest number of nodes of a snapshot that is one linked chain
MaxChainNodes == 102
\* number of u32 fields per node tuple in the snapshot (meta.node_fields)
NodeStride == 6

\* NodeId::MAX, the "unset" sentinel of the dominator engine.  The program's
\* value is u32::MAX; TLC's integers are 32-bit signed, so the model uses the
\* largest integer TLC has: like u32::MAX it lies above every NodeId and
\* outside every array.
NodeIdMAX == 2147483647

\* ordinals of EdgeType
EdgeProperty == 2
EdgeWeak == 6
\* ordinals of NodeType
NodeHidden == 0
NodeString == 2
NodeObject == 3
NodeCode == 4
NodeSynthetic == 9
\* the literal 4 that hash_object compares an edge type with (EdgeType::Hidden)
EdgeHidden == 4

NodeIds(count) == 0 .. (count - 1)
Nodes == NodeIds(NodeCount)
NoValue == [none |-> TRUE]

(***************************************************************************)
(* Small helpers on sequences and sets.                                    *)
(***************************************************************************)
RECURSIVE SumOver(_, _)
SumOver(f, S) ==
    IF S = {} THEN 0
    ELSE LET x == CHOOSE y \in S : TRUE IN f[x] + SumOver(f, S \ {x})

\* TLC evaluates the argument of an operator where it is first used; a loop
\* that is split in halves asks for the value of its first half here, so that
\* the second half starts from a value and not from a pending computation
Evaluated(x) == x = x

RECURSIVE SeqSum(_)
SeqSum(s) == IF s = <<>> THEN 0 ELSE Head(s) + SeqSum(Tail(s))

MapSeq(s, Op(_)) == [i \in DOMAIN s |-> Op(s[i])]

Range(s) == {s[i] : i \in DOMAIN s}

\* a finite set of integers as a sequence, smallest first / largest first
Ascending(S) ==
    [i \in 1 .. Cardinality(S) |->
        CHOOSE x \in S : Cardinality({y \in S : y < x}) = i - 1]

Descending(S) ==
    [i \in 1 .. Cardinality(S) |->
        CHOOSE x \in S : Cardinality({y \in S : y > x}) = i - 1]

\* all orderings (sequences without repetition) of a finite set
RECURSIVE Orderings(_)
Orderings(S) ==
    IF S = {} THEN {<<>>}
    ELSE UNION {{<<x>> \o o : o \in Orderings(S \ {x})} : x \in S}

(***************************************************************************)
(* The snapshot file: node tuples and edge tuples.  An edge's to_node is   *)
(* an offset into the flat node array (NodeId * stride).                   *)
(***************************************************************************)
\* snapshot.node_count: the node count that the file's header states.  The
\* loader takes it as it is and never compares it with the node array.
SnapshotNodeCount(s) == s.snapshot.node_count

\* nodes.len() / node_stride: the number of node tuples
SnapshotTupleCount(s) == Cardinality(DOMAIN s.nodes)

\* the last node that owns an edge block (edges are stored in node order)
LastSource(s) ==
    LET owners == {n \in DOMAIN s.nodes : s.nodes[n].edge_count > 0}
    IN IF owners = {} THEN 0 ELSE CHOOSE n \in owners : \A m \in owners : m <= n

SnapshotWithEdge(s, from, typ, to) ==
    [s EXCEPT !.nodes[from].edge_count = @ + 1,
              !.edges = Append(@, [typ |-> typ, to_node |-> to * NodeStride])]

\* an edge tuple at the end of the edge array that no node's edge_count counts
SnapshotWithUncountedEdge(s, typ, to) ==
    [s EXCEPT !.edges = Append(@, [typ |-> typ, to_node |-> to * NodeStride])]

\* a node whose edge_count counts an edge that the edge array does not hold
SnapshotWithMissingEdge(s, from) ==
    [s EXCEPT !.nodes[from].edge_count = @ + 1]

\* a snapshot whose node tuples carry the index of their name in `strings`
NamedSnapshot(types, names, sizes, strings) ==
    [nodes   |-> [n \in Nodes |-> [typ |-> types[n], name |-> names[n],
                                   self_size |-> sizes[n], edge_count |-> 0]],
     edges   |-> <<>>,
     strings |-> strings,
     snapshot |-> [node_count |-> NodeCount]]

SnapshotWithNamedEdge(s, from, typ, name_or_index, to) ==
    [s EXCEPT !.nodes[from].edge_count = @ + 1,
              !.edges = Append(@, [typ |-> typ, name_or_index |-> name_or_index,
                                   to_node |-> to * NodeStride])]

EmptySnapshot(sizes, types) ==
    [nodes |-> [n \in Nodes |-> [typ |-> types[n], self_size |-> sizes[n], edge_count |-> 0]],
     edges |-> <<>>,
     snapshot |-> [node_count |-> NodeCount]]

(***************************************************************************)
(* V8HeapGraph: the loaded graph.                                          *)
(***************************************************************************)
\* a variant of EdgesNew that keeps the to_node offsets undivided
EdgesNewUndivided(snapshot_edges, node_stride) ==
    [types    |-> [i \in DOMAIN snapshot_edges |-> snapshot_edges[i].typ],
     to_nodes |-> [i \in DOMAIN snapshot_edges |-> snapshot_edges[i].to_node]]

\* Edges::new: the to_node column holds NodeIds (offset / stride)
EdgesNew(snapshot_edges, node_stride) ==
    [types    |-> [i \in DOMAIN snapshot_edges |-> snapshot_edges[i].typ],
     to_nodes |-> [i \in DOMAIN snapshot_edges |-> snapshot_edges[i].to_node \div node_stride]]

\* the running sum of the edge counts of the nodes lo .. hi, on top of
\* `before`: element k is the end of the edge block of node lo + k - 1
RECURSIVE BlockEnds(_, _, _, _)
BlockEnds(s, lo, hi, before) ==
    IF lo > hi THEN <<>>
    ELSE IF lo = hi THEN <<before + s.nodes[lo].edge_count>>
    ELSE LET mid  == (lo + hi) \div 2
             left == BlockEnds(s, lo, mid, before)
         IN left \o BlockEnds(s, mid + 1, hi, left[Len(left)])

\* From<SnapshotFile>: the loop walks the node tuples in order and, per node,
\* its block of edge_count edge ids.  node_count and the length of
\* node_in_edges come from the header; node_out_edges has one entry per node
\* tuple, the first edge id of that node; node_in_edges[t] lists, in edge
\* order, the source of every edge into t that a node's edge_count counts.
V8HeapGraphFrom(s) ==
    LET node_count == SnapshotNodeCount(s)
        tuples     == SnapshotTupleCount(s)
        edges      == EdgesNew(s.edges, NodeStride)
        ends       == BlockEnds(s, 0, tuples - 1, 0)
        first(n)   == IF n = 0 THEN 0 ELSE ends[n]
        edge_ids   == [k \in 1 .. first(tuples) |-> k - 1]
        owner(e)   == CHOOSE n \in DOMAIN s.nodes : first(n) <= e /\ e < ends[n + 1]
    IN [node_count     |-> node_count,
        nodes          |-> s.nodes,
        edges          |-> edges,
        node_out_edges |-> [k \in 1 .. tuples |-> first(k - 1)],
        node_in_edges  |-> [t \in NodeIds(node_count) |->
                               MapSeq(SelectSeq(edge_ids, LAMBDA e : edges.to_nodes[e + 1] = t),
                                      owner)]]

self_size_for(g, n) == g.nodes[n].self_size
edge_count_for(g, n) == g.nodes[n].edge_count

\* a variant of PartitionPoint with the predicate *probe < nr
PartitionPointStrict(g, nr) ==
    LET v == g.node_out_edges
        bad == {i \in 1 .. Len(v) : ~(v[i] < nr)}
    IN IF bad = {} THEN Len(v)
       ELSE (CHOOSE i \in bad : \A j \in bad : i <= j) - 1

\* slice::partition_point(|probe| *probe <= nr) on node_out_edges
PartitionPoint(g, nr) ==
    LET v == g.node_out_edges
        bad == {i \in 1 .. Len(v) : ~(v[i] <= nr)}
    IN IF bad = {} THEN Len(v)
       ELSE (CHOOSE i \in bad : \A j \in bad : i <= j) - 1

\* V8HeapGraph::edge(nr).from_node
from_node(g, nr) == PartitionPoint(g, nr) - 1
to_node(g, nr) == g.edges.to_nodes[nr + 1]

\* the number of NodeType ordinals (0 .. 14) and of EdgeType ordinals
\* (0 .. 6) that From<NodeId> converts; any other tag panics in the
\* conversion
NodeTypeCount == 15
EdgeTypeCount == 7

\* From<NodeId> for NodeType
NodeTypeFrom(value) ==
    IF value < NodeTypeCount THEN [typ |-> value]
    ELSE [panic |-> "Unexpecte node type"]

\* From<NodeId> for EdgeType
EdgeTypeFrom(value) ==
    IF value < EdgeTypeCount THEN [typ |-> value]
    ELSE [panic |-> "Unexpecte edge type"]

\* V8HeapGraph::node(n).typ(): the stored tag, converted
node_typ(g, n) == NodeTypeFrom(g.nodes[n].typ)

\* V8HeapGraph::edge(nr).typ(): the stored tag, converted
edge_typ(g, nr) == EdgeTypeFrom(g.edges.types[nr + 1])

\* edge ids of the out-edge block of a node
out_edges(g, node) ==
    LET start == g.node_out_edges[node + 1]
    IN [k \in 1 .. edge_count_for(g, node) |-> start + k - 1]

\* V8HeapGraph::in_edges: &self.node_in_edges[node], the source NodeIds of
\* the counted edges into the node, Weak edges included, in edge order
in_edges(g, node) == g.node_in_edges[node]

\* the entries of in_edges(node) as Edge values (edge ids, in edge order),
\* the form in which the GraphOps implementation filters them with no_weak
\* and maps them with from_node: the k-th of them is the k-th edge into the
\* node among the edges that the nodes' edge_count fields count, the edge
\* whose source From<SnapshotFile> pushed as the k-th entry of in_edges.
\* There are as many as in_edges(node) has entries, and like in_edges(node)
\* they have no value for a node that is no index of node_in_edges
in_edge_values(g, node) ==
    LET tuples  == Len(g.node_out_edges)
        counted == IF tuples = 0 THEN 0
                   ELSE g.node_out_edges[tuples] + edge_count_for(g, tuples - 1)
    IN SubSeq(SelectSeq([k \in 1 .. counted |-> k - 1],
                        LAMBDA e : to_node(g, e) = node),
              1, Len(in_edges(g, node)))

\* |e| e.typ() != EdgeType::Weak; where typ() panics the filter has no value
no_weak(g, e) == edge_typ(g, e).typ # EdgeWeak

\* GraphOps for V8HeapGraph
predecessors(g, node) ==
    MapSeq(SelectSeq(in_edge_values(g, node), LAMBDA e : no_weak(g, e)),
           LAMBDA e : from_node(g, e))

successors(g, node) ==
    MapSeq(SelectSeq(out_edges(g, node), LAMBDA e : no_weak(g, e)),
           LAMBDA e : to_node(g, e))

(***************************************************************************)
(* The Lengauer-Tarjan engine.  Its arrays are indexed by NodeId; an       *)
(* index outside the array (the NodeId::MAX sentinel) is a panic.          *)
(***************************************************************************)
\* the arrays of LengauerTarjan::new, one slot per node of the graph
LTNew(g) ==
    [dfnum    |-> [v \in NodeIds(g.node_count) |-> NodeIdMAX],
     vertex   |-> [v \in NodeIds(g.node_count) |-> NodeIdMAX],
     parent   |-> [v \in NodeIds(g.node_count) |-> NodeIdMAX],
     n        |-> 0,
     semi     |-> [v \in NodeIds(g.node_count) |-> NodeIdMAX],
     ancestor |-> [v \in NodeIds(g.node_count) |-> NodeIdMAX],
     best     |-> [v \in NodeIds(g.node_count) |-> NodeIdMAX],
     idom     |-> [v \in NodeIds(g.node_count) |-> NodeIdMAX],
     samedom  |-> [v \in NodeIds(g.node_count) |-> NodeIdMAX],
     bucket   |-> [v \in NodeIds(g.node_count) |-> <<>>],
     panic    |-> FALSE]

\* v indexes the engine's arrays
InBounds(lt, v) == v \in DOMAIN lt.dfnum

Panicked(lt) == [lt EXCEPT !.panic = TRUE]

\* The recursion of dfs, run on an explicit call stack: a frame is a call of
\* dfs that is inside its loop over successors, [node, succs, i] with i the
\* position of the next successor.  st = [lt, stack], the innermost call last.

\* the call dfs(node, p), up to its loop over the successors
dfsEnter(st, g, node, p) ==
    IF ~InBounds(st.lt, node) THEN [st EXCEPT !.lt = Panicked(st.lt)]
    ELSE IF st.lt.dfnum[node] # NodeIdMAX THEN st
    ELSE [lt    |-> [st.lt EXCEPT !.dfnum[node] = st.lt.n,
                                  !.vertex[st.lt.n] = node,
                                  !.parent[node] = p,
                                  !.n = st.lt.n + 1],
          stack |-> Append(st.stack, [node |-> node, succs |-> successors(g, node), i |-> 1])]

\* the innermost call takes one turn of its loop, or returns
dfsStep(st, g) ==
    IF st.lt.panic \/ st.stack = <<>> THEN st
    ELSE LET top   == st.stack[Len(st.stack)]
             below == SubSeq(st.stack, 1, Len(st.stack) - 1)
         IN IF top.i > Len(top.succs) THEN [st EXCEPT !.stack = below]
            ELSE dfsEnter([st EXCEPT !.stack = Append(below, [top EXCEPT !.i = top.i + 1])],
                          g, top.succs[top.i], top.node)

\* the steps lo .. hi of the call stack, split in halves
RECURSIVE dfsRun(_, _, _, _)
dfsRun(st, g, lo, hi) ==
    IF lo > hi THEN st
    ELSE IF lo = hi THEN dfsStep(st, g)
    ELSE LET mid  == (lo + hi) \div 2
             left == dfsRun(st, g, lo, mid)
         IN IF left.lt.panic \/ left.stack = <<>> THEN left
            ELSE dfsRun(left, g, mid + 1, hi)

\* dfs(node, p): every node is entered once and every edge is tried once, so
\* the call stack is empty after node_count + edge count steps
dfs(lt, g, node, p) ==
    IF lt.panic THEN lt
    ELSE dfsRun(dfsEnter([lt |-> lt, stack |-> <<>>], g, node, p), g,
                1, g.node_count + Len(g.edges.to_nodes) + 1).lt

link(lt, p, n) == [lt EXCEPT !.ancestor[n] = p, !.best[n] = n]

\* returns [lt, r]: the updated engine and the returned node
RECURSIVE ancestor_with_lowest_semi(_, _)
ancestor_with_lowest_semi(lt, v) ==
    IF lt.panic \/ ~InBounds(lt, v) THEN [lt |-> Panicked(lt), r |-> NodeIdMAX]
    ELSE
    LET a == lt.ancestor[v] IN
    IF a # NodeIdMAX /\ ~InBounds(lt, a) THEN [lt |-> Panicked(lt), r |-> NodeIdMAX]
    ELSE IF a # NodeIdMAX /\ lt.ancestor[a] # NodeIdMAX
    THEN LET rec == ancestor_with_lowest_semi(lt, a)
             b   == rec.r
             lt1 == IF rec.lt.panic THEN rec.lt
                    ELSE [rec.lt EXCEPT !.ancestor[v] = rec.lt.ancestor[a]]
         IN IF lt1.panic THEN [lt |-> lt1, r |-> NodeIdMAX]
            ELSE IF ~InBounds(lt, b) \/ ~InBounds(lt, lt1.best[v])
                 THEN [lt |-> Panicked(lt1), r |-> NodeIdMAX]
            ELSE IF ~InBounds(lt, lt1.semi[b]) \/ ~InBounds(lt, lt1.semi[lt1.best[v]])
                 THEN [lt |-> Panicked(lt1), r |-> NodeIdMAX]
            ELSE LET lt2 == IF lt1.dfnum[lt1.semi[b]] < lt1.dfnum[lt1.semi[lt1.best[v]]]
                            THEN [lt1 EXCEPT !.best[v] = b]
                            ELSE lt1
                 IN [lt |-> lt2, r |-> lt2.best[v]]
    ELSE [lt |-> lt, r |-> lt.best[v]]

\* the semidominator loop over the predecessors of w; returns [lt, s]
RECURSIVE semiLoop(_, _, _, _, _)
semiLoop(lt, w, preds, k, s) ==
    IF lt.panic \/ k > Len(preds) THEN [lt |-> lt, s |-> s]
    ELSE
    LET v == preds[k] IN
    IF lt.dfnum[v] = NodeIdMAX THEN semiLoop(lt, w, preds, k + 1, s)
    ELSE
    LET res == IF lt.dfnum[v] <= lt.dfnum[w]
               THEN [lt |-> lt, r |-> v]
               ELSE LET anc == ancestor_with_lowest_semi(lt, v)
                    IN IF anc.lt.panic THEN anc
                       ELSE IF ~InBounds(lt, anc.r)
                            THEN [lt |-> Panicked(anc.lt), r |-> NodeIdMAX]
                       ELSE [lt |-> anc.lt, r |-> anc.lt.semi[anc.r]]
        s_prime == res.r
    IN IF res.lt.panic THEN [lt |-> res.lt, s |-> s]
       ELSE IF ~InBounds(lt, s_prime) THEN [lt |-> Panicked(res.lt), s |-> s]
       ELSE semiLoop(res.lt, w, preds, k + 1,
                     IF res.lt.dfnum[s_prime] < res.lt.dfnum[s] THEN s_prime ELSE s)

\* a variant of bucketLoop that never defers to samedom: every drained node
\* gets p as its immediate dominator
RECURSIVE bucketLoopNoSamedom(_, _, _, _)
bucketLoopNoSamedom(lt, p, items, k) ==
    IF lt.panic \/ k > Len(items) THEN lt
    ELSE bucketLoopNoSamedom([lt EXCEPT !.idom[items[k]] = p], p, items, k + 1)

\* draining bucket[p]
RECURSIVE bucketLoop(_, _, _, _)
bucketLoop(lt, p, items, k) ==
    IF lt.panic \/ k > Len(items) THEN lt
    ELSE
    LET v   == items[k]
        anc == ancestor_with_lowest_semi(lt, v)
        y   == anc.r
    IN IF anc.lt.panic THEN anc.lt
       ELSE IF ~InBounds(lt, y) THEN Panicked(anc.lt)
       ELSE bucketLoop(IF anc.lt.semi[y] = anc.lt.semi[v]
                       THEN [anc.lt EXCEPT !.idom[v] = p]
                       ELSE [anc.lt EXCEPT !.samedom[v] = y],
                       p, items, k + 1)

\* the body of the first loop once the semidominator s of w is known:
\* semi[w] = s, bucket[s].push(w), link(p, w), and bucket[p] is drained
linkAndDrain(lt, w, p, s) ==
    LET lt2 == link([lt EXCEPT !.semi[w] = s, !.bucket[s] = Append(@, w)], p, w)
    IN bucketLoop([lt2 EXCEPT !.bucket[p] = <<>>], p, lt2.bucket[p], 1)

\* sl = [lt, s]: the engine and the semidominator after the loop over the
\* predecessors of w
afterSemiLoop(sl, w, p) ==
    IF sl.lt.panic THEN sl.lt ELSE linkAndDrain(sl.lt, w, p, sl.s)

\* the body of the first loop of compute_dominators, for one i
mainStep(lt, g, i) ==
    IF lt.panic THEN lt
    ELSE
    LET w == lt.vertex[i]
        p == lt.parent[w]
    IN IF p = NodeIdMAX THEN lt
       ELSE afterSemiLoop(semiLoop(lt, w, predecessors(g, w), 1, p), w, p)

\* the first loop of compute_dominators: i = hi, hi - 1, ..., lo, split in
\* halves
RECURSIVE mainLoop(_, _, _, _)
mainLoop(lt, g, lo, hi) ==
    IF lo > hi THEN lt
    ELSE IF lo = hi THEN mainStep(lt, g, lo)
    ELSE LET mid   == (lo + hi) \div 2
             upper == mainLoop(lt, g, mid + 1, hi)
         IN IF upper.panic THEN upper ELSE mainLoop(upper, g, lo, mid)

\* the body of the second loop, for one i
samedomStep(lt, i) ==
    IF lt.panic THEN lt
    ELSE
    LET w == lt.vertex[i] IN
    IF lt.samedom[w] # NodeIdMAX
    THEN IF ~InBounds(lt, lt.samedom[w]) THEN Panicked(lt)
         ELSE [lt EXCEPT !.idom[w] = lt.idom[lt.samedom[w]]]
    ELSE lt

\* the second loop: i = lo, ..., hi, split in halves
RECURSIVE samedomLoop(_, _, _)
samedomLoop(lt, lo, hi) ==
    IF lo > hi THEN lt
    ELSE IF lo = hi THEN samedomStep(lt, lo)
    ELSE LET mid  == (lo + hi) \div 2
             left == samedomLoop(lt, lo, mid)
         IN IF left.panic THEN left ELSE samedomLoop(left, mid + 1, hi)

\* a variant of ResultMap that copies the idom array unfiltered
ResultMapUnfiltered(lt) == [node \in DOMAIN lt.idom |-> lt.idom[node]]

\* the result map: a node is a key when its idom is set
ResultMap(lt) ==
    LET keys == {node \in Range(lt.vertex) \ {NodeIdMAX} : lt.idom[node] # NodeIdMAX}
    IN [node \in keys |-> lt.idom[node]]

\* the second loop over all the visited vertices
samedomPass(lt) == samedomLoop(lt, 1, lt.n - 1)

\* what the caller gets: a panic, or the result map
Returned(lt) ==
    IF lt.panic THEN [status |-> "panic", idom |-> <<>>]
    ELSE [status |-> "ok", idom |-> ResultMap(lt)]

compute_dominators(lt, g) ==
    Returned(samedomPass(mainLoop(lt, g, 1, lt.n - 1)))

RECURSIVE dfsRoots(_, _, _, _)
dfsRoots(lt, g, rs, k) ==
    IF k > Len(rs) THEN lt
    ELSE dfsRoots(dfs(lt, g, rs[k], NodeIdMAX), g, rs, k + 1)

\* the engine after the depth-first searches computes the dominators
afterDfs(lt, g) ==
    IF lt.panic THEN [status |-> "panic", idom |-> <<>>]
    ELSE compute_dominators(lt, g)

lengauer_tarjan(g, rs) == afterDfs(dfsRoots(LTNew(g), g, rs, 1), g)

(***************************************************************************)
(* Reference notions: reachability and dominance over the edges the        *)
(* engine is given (successors).                                           *)
(***************************************************************************)
SuccSet(g, n) == Range(successors(g, n))

\* nodes reachable from the set `from` without entering `avoid`
RECURSIVE ReachAvoiding(_, _, _)
ReachAvoiding(g, seen, avoid) ==
    LET next == (UNION {SuccSet(g, n) : n \in seen}) \ (seen \cup avoid)
    IN IF next = {} THEN seen ELSE ReachAvoiding(g, seen \cup next, avoid)

Reachable(g, rootSet) == ReachAvoiding(g, rootSet, {})

\* d dominates n (from root r): every path from r to n passes through d
Dominates(g, r, d, n) ==
    \/ d = n
    \/ d = r
    \/ n \notin ReachAvoiding(g, {r}, {d})

StrictDominators(g, r, n) ==
    {d \in Reachable(g, {r}) \ {n} : Dominates(g, r, d, n)}

\* d is the immediate dominator of n
IsImmediateDominator(g, r, d, n) ==
    /\ d \in StrictDominators(g, r, n)
    /\ \A d2 \in StrictDominators(g, r, n) : Dominates(g, r, d2, d)

(***************************************************************************)
(* The dominator tree and its retained sizes.                              *)
(***************************************************************************)
\* the root the retained-size traversal starts at
DesignatedRoot == 0

\* a variant of InvertLoop that pushes every node twice
RECURSIVE InvertLoopTwice(_, _, _, _)
InvertLoopTwice(idom, order, k, children) ==
    IF k > Len(order) THEN children
    ELSE LET node_id == order[k]
             d       == idom[node_id]
             cur     == IF d \in DOMAIN children THEN children[d] ELSE <<>>
         IN InvertLoopTwice(idom, order, k + 1,
                       [x \in DOMAIN children \cup {d} |->
                           IF x = d THEN Append(Append(cur, node_id), node_id)
                           ELSE children[x]])

\* a variant of InvertLoop that replaces the list of children instead of
\* pushing to it
RECURSIVE InvertLoopOverwrite(_, _, _, _)
InvertLoopOverwrite(idom, order, k, children) ==
    IF k > Len(order) THEN children
    ELSE LET node_id == order[k]
             d       == idom[node_id]
         IN InvertLoopOverwrite(idom, order, k + 1,
                       [x \in DOMAIN children \cup {d} |->
                           IF x = d THEN <<node_id>> ELSE children[x]])

\* children: HashMap<NodeId, Vec<NodeId>>, filled in the order in which the
\* (node, immediate dominator) pairs are iterated
RECURSIVE InvertLoop(_, _, _, _)
InvertLoop(idom, order, k, children) ==
    IF k > Len(order) THEN children
    ELSE LET node_id == order[k]
             d       == idom[node_id]
             cur     == IF d \in DOMAIN children THEN children[d] ELSE <<>>
         IN InvertLoop(idom, order, k + 1,
                       [x \in DOMAIN children \cup {d} |->
                           IF x = d THEN Append(cur, node_id) ELSE children[x]])

\* returns [rs, diverged]: the sizes after the call; the recursion is as deep
\* as the chain of children, and never returns on a cycle of children
RECURSIVE annotate_retained_sizes(_, _, _, _, _)
RECURSIVE annotateChildren(_, _, _, _, _, _, _)

annotate_retained_sizes(root, children, rs, g, fuel) ==
    IF fuel = 0 THEN [rs |-> rs, diverged |-> TRUE]
    ELSE LET rs0 == [rs EXCEPT ![root] = self_size_for(g, root)]
         IN IF root \in DOMAIN children
            THEN annotateChildren(root, children[root], 1, children, rs0, g, fuel)
            ELSE [rs |-> rs0, diverged |-> FALSE]

annotateChildren(root, kids, k, children, rs, g, fuel) ==
    IF k > Len(kids) THEN [rs |-> rs, diverged |-> FALSE]
    ELSE LET sub == annotate_retained_sizes(kids[k], children, rs, g, fuel - 1)
         IN IF sub.diverged THEN sub
            ELSE annotateChildren(root, kids, k + 1, children,
                                  [sub.rs EXCEPT ![root] = @ + sub.rs[kids[k]]],
                                  g, fuel)

tree_from_immediate_dominators(idom, order, g) ==
    LET children == InvertLoop(idom, order, 1, <<>>)
        ann == annotate_retained_sizes(DesignatedRoot, children,
                                       [n \in NodeIds(g.node_count) |-> 0], g, g.node_count + 1)
    IN [children |-> children, retained_sizes |-> ann.rs, diverged |-> ann.diverged]

retained_size(t, node_id) == t.retained_sizes[node_id]

ChildrenOf(t, n) == IF n \in DOMAIN t.children THEN t.children[n] ELSE <<>>

(***************************************************************************)
(* GraphBuilder and CompactGraph.                                          *)
(***************************************************************************)
\* `data[0] as u8` in decode_node and decode_edge: the low 8 bits of the tag
as_u8(value) == value % 2 ^ 8

\* add_nodes, add_edges and finalize on the snapshot's tuples: the type tags
\* are stored as u8; a node of type 0 or 9 is a GC root; an edge target is a
\* NodeId (offset / stride); the edge range of a node starts where the range
\* of the node before it ends
CompactGraphFrom(s) ==
    LET node_count == SnapshotTupleCount(s)
        ends       == BlockEnds(s, 0, node_count - 1, 0)
    IN [node_types       |-> [n \in DOMAIN s.nodes |-> as_u8(s.nodes[n].typ)],
        node_sizes       |-> [n \in DOMAIN s.nodes |-> s.nodes[n].self_size],
        node_edge_ranges |-> [k \in 1 .. node_count |->
                                 [start |-> IF k = 1 THEN 0 ELSE ends[k - 1],
                                  end   |-> ends[k]]],
        edge_types       |-> [i \in DOMAIN s.edges |-> as_u8(s.edges[i].typ)],
        edge_targets     |-> [i \in DOMAIN s.edges |-> s.edges[i].to_node \div NodeStride],
        gc_roots         |-> SelectSeq([k \in 1 .. node_count |-> k - 1],
                                       LAMBDA n : \/ as_u8(s.nodes[n].typ) = NodeHidden
                                                  \/ as_u8(s.nodes[n].typ) = NodeSynthetic)]

\* node_edge_ranges.get(node_id).copied().unwrap_or((0, 0)): the edge range
\* of a node, the empty range (0, 0) for a NodeId that is no node of the graph
compact_edge_range(cg, node_id) ==
    IF node_id + 1 \in DOMAIN cg.node_edge_ranges
    THEN cg.node_edge_ranges[node_id + 1]
    ELSE [start |-> 0, end |-> 0]

\* CompactGraph::edges(node_id): the targets of the node's edge range
compact_edges(cg, node_id) ==
    LET r == compact_edge_range(cg, node_id)
    IN [k \in 1 .. (r.end - r.start) |-> cg.edge_targets[r.start + k]]

\* CompactGraph::node_count
compact_node_count(cg) == Cardinality(DOMAIN cg.node_types)

is_gc_root(cg, node_id) == node_id \in Range(cg.gc_roots)

(***************************************************************************)
(* calculate_retained_sizes: the iterative dominator solver.               *)
(***************************************************************************)
\* the iteration cap of calculate_dominators
max_iterations == 100

\* Option<NodeId>::None in the solver's idom map
None == -1

\* the node whose edge range holds the k-th edge
compact_edge_source(cg, k) ==
    CHOOSE n \in DOMAIN cg.node_types :
        cg.node_edge_ranges[n + 1].start < k /\ k <= cg.node_edge_ranges[n + 1].end

\* reverse[t]: the sources of the edges into t, by source NodeId and then in
\* edge order, as the two nested loops push them
build_reverse_graph(cg) ==
    LET node_count == compact_node_count(cg)
        last       == IF node_count = 0 THEN 0 ELSE cg.node_edge_ranges[node_count].end
        walked     == [k \in 1 .. last |-> k]
    IN [t \in NodeIds(node_count) |->
           MapSeq(SelectSeq(walked, LAMBDA k : cg.edge_targets[k] = t),
                  LAMBDA k : compact_edge_source(cg, k))]

\* one turn of `while let Some(node_id) = stack.pop()`; st = [stack, reachable]
ReachStep(cg, st) ==
    IF st.stack = <<>> THEN st
    ELSE LET node_id == st.stack[Len(st.stack)]
             rest    == SubSeq(st.stack, 1, Len(st.stack) - 1)
         IN IF node_id \in st.reachable
            THEN [stack |-> rest, reachable |-> st.reachable]
            ELSE [stack     |-> rest \o compact_edges(cg, node_id),
                  reachable |-> st.reachable \cup {node_id}]

\* the turns lo .. hi of the while loop, split in halves
RECURSIVE ReachLoop(_, _, _, _)
ReachLoop(cg, lo, hi, st) ==
    IF lo > hi THEN st
    ELSE IF lo = hi THEN ReachStep(cg, st)
    ELSE LET mid  == (lo + hi) \div 2
             left == ReachLoop(cg, lo, mid, st)
         IN IF left.stack = <<>> THEN left
            ELSE ReachLoop(cg, mid + 1, hi, left)

\* every root and every edge target is pushed at most once per visited node,
\* so the stack is empty after that many pops
find_reachable_from_roots(cg) ==
    ReachLoop(cg, 1, Len(cg.gc_roots) + Len(cg.edge_targets) + 1,
              [stack |-> cg.gc_roots, reachable |-> {}]).reachable

IdomOf(idom, n) == IF n \in DOMAIN idom THEN idom[n] ELSE None

\* one turn of the first loop of intersect; st = [current, path1, done]
PathStep(idom, st) ==
    LET path == st.path1 \cup {st.current}
        dom  == IdomOf(idom, st.current)
    IN IF dom = None \/ dom = st.current
       THEN [current |-> st.current, path1 |-> path, done |-> TRUE]
       ELSE [current |-> dom, path1 |-> path, done |-> FALSE]

RECURSIVE PathLoop(_, _, _, _)
PathLoop(idom, lo, hi, st) ==
    IF lo > hi \/ st.done THEN st
    ELSE IF lo = hi THEN PathStep(idom, st)
    ELSE LET mid  == (lo + hi) \div 2
             left == PathLoop(idom, lo, mid, st)
         IN IF left.done THEN left ELSE PathLoop(idom, mid + 1, hi, left)

\* the first loop of intersect: the set of nodes from b1 up the idom chain.
\* The loop only ends at a node without idom or at a node that is its own
\* idom; when it has taken more turns than there are nodes it is on a cycle
\* and never ends: [hang |-> TRUE]
PathToRoot(b1, idom) ==
    LET st == PathLoop(idom, 1, Cardinality(DOMAIN idom) + 1,
                       [current |-> b1, path1 |-> {}, done |-> FALSE])
    IN [hang |-> ~st.done, path |-> st.path1]

\* one turn of the second loop; st = [current, done]
WalkStep(idom, path1, st) ==
    LET dom == IdomOf(idom, st.current)
    IN IF st.current \in path1 \/ dom = None \/ dom = st.current
       THEN [current |-> st.current, done |-> TRUE]
       ELSE [current |-> dom, done |-> FALSE]

RECURSIVE WalkLoop(_, _, _, _, _)
WalkLoop(idom, path1, lo, hi, st) ==
    IF lo > hi \/ st.done THEN st
    ELSE IF lo = hi THEN WalkStep(idom, path1, st)
    ELSE LET mid  == (lo + hi) \div 2
             left == WalkLoop(idom, path1, lo, mid, st)
         IN IF left.done THEN left ELSE WalkLoop(idom, path1, mid + 1, hi, left)

\* the second loop of intersect: walk from b2 until path1 is hit
WalkToPath(b2, path1, idom) ==
    LET st == WalkLoop(idom, path1, 1, Cardinality(DOMAIN idom) + 1,
                       [current |-> b2, done |-> FALSE])
    IN [hang |-> ~st.done, r |-> st.current]

intersect(b1, b2, idom) ==
    LET p == PathToRoot(b1, idom)
    IN IF p.hang THEN [hang |-> TRUE, r |-> b1]
       ELSE WalkToPath(b2, p.path, idom)

\* "Intersect with remaining predecessors"
RECURSIVE IntersectPreds(_, _, _, _)
IntersectPreds(current, preds, k, idom) ==
    IF k > Len(preds) THEN [hang |-> FALSE, r |-> current]
    ELSE IF IdomOf(idom, preds[k]) # None
    THEN LET x == intersect(current, preds[k], idom)
         IN IF x.hang THEN x ELSE IntersectPreds(x.r, preds, k + 1, idom)
    ELSE IntersectPreds(current, preds, k + 1, idom)

\* "Find first predecessor with known idom"
FirstKnown(preds, idom) ==
    LET known == {k \in DOMAIN preds : IdomOf(idom, preds[k]) # None}
    IN IF known = {} THEN None
       ELSE preds[CHOOSE k \in known : \A j \in known : k <= j]

\* the body of the for loop over the reachable set, for one node;
\* st = [idom, changed, hang]
Visit(cg, reverse_edges, node_id, st) ==
    IF st.hang THEN st
    ELSE
    LET predecessors_ == reverse_edges[node_id]
        new_idom      == FirstKnown(predecessors_, st.idom)
    IN IF is_gc_root(cg, node_id) \/ predecessors_ = <<>> \/ new_idom = None
       THEN st
       ELSE LET cur == IntersectPreds(new_idom, predecessors_, 1, st.idom)
            IN IF cur.hang THEN [st EXCEPT !.hang = TRUE]
               ELSE IF st.idom[node_id] # cur.r
               THEN [st EXCEPT !.idom[node_id] = cur.r, !.changed = TRUE]
               ELSE st

\* the for loop over order[lo .. hi], one node after the other (the range is
\* split in halves to keep the evaluation shallow)
RECURSIVE Pass(_, _, _, _, _, _)
Pass(cg, reverse_edges, order, lo, hi, st) ==
    IF lo > hi THEN st
    ELSE IF lo = hi THEN Visit(cg, reverse_edges, order[lo], st)
    ELSE LET mid  == (lo + hi) \div 2
             left == Pass(cg, reverse_edges, order, lo, mid, st)
         IN IF left.hang THEN left
            ELSE Pass(cg, reverse_edges, order, mid + 1, hi, left)

\* one turn of `while changed && iterations < max_iterations`
Iteration(cg, reverse_edges, order, st) ==
    IF st.hang \/ ~st.changed THEN st
    ELSE Pass(cg, reverse_edges, order, 1, Len(order), [st EXCEPT !.changed = FALSE])

\* the turns lo .. hi of the while loop (split in halves as in Pass)
RECURSIVE Iterate(_, _, _, _, _, _)
Iterate(cg, reverse_edges, order, lo, hi, st) ==
    IF lo > hi THEN st
    ELSE IF lo = hi THEN Iteration(cg, reverse_edges, order, st)
    ELSE LET mid  == (lo + hi) \div 2
             left == Iterate(cg, reverse_edges, order, lo, mid, st)
         IN IF left.hang \/ ~left.changed THEN left
            ELSE Iterate(cg, reverse_edges, order, mid + 1, hi, left)

\* order: the order in which the hash set `reachable` is iterated
calculate_dominators(cg, reverse_edges, order) ==
    LET reachable == Range(order)
        init == [idom    |-> [n \in reachable |-> IF is_gc_root(cg, n) THEN n ELSE None],
                 changed |-> TRUE,
                 hang    |-> FALSE]
        st   == Iterate(cg, reverse_edges, order, 1, max_iterations, init)
        keys == {n \in reachable : st.idom[n] # None}
    IN [hang       |-> st.hang,
        converged  |-> ~st.hang /\ ~st.changed,
        dominators |-> [n \in keys |-> st.idom[n]]]

\* dom_tree[d]: the nodes whose dominator is d.  The vectors are only summed
\* over, so the model keeps each as the set of its elements.
build_dominator_tree(dominators, node_count) ==
    [d \in NodeIds(node_count) |-> {node \in DOMAIN dominators : node # d /\ dominators[node] = d}]

\* the body of the loop over node ids, for one node
SizesStep(cg, dom_tree, reachable, node_id, retained) ==
    IF node_id \notin reachable THEN retained
    ELSE LET kids == [c \in dom_tree[node_id] |->
                         IF c \in DOMAIN retained THEN retained[c] ELSE 0]
             size == cg.node_sizes[node_id] + SumOver(kids, dom_tree[node_id])
         IN [n \in DOMAIN retained \cup {node_id} |->
                IF n = node_id THEN size ELSE retained[n]]

\* the loop over the node ids hi, hi - 1, ..., lo, split in halves
RECURSIVE SizesLoop(_, _, _, _, _, _)
SizesLoop(cg, dom_tree, reachable, lo, hi, retained) ==
    IF lo > hi THEN retained
    ELSE IF lo = hi THEN SizesStep(cg, dom_tree, reachable, lo, retained)
    ELSE LET mid   == (lo + hi) \div 2
             upper == SizesLoop(cg, dom_tree, reachable, mid + 1, hi, retained)
         IN IF Evaluated(upper)
            THEN SizesLoop(cg, dom_tree, reachable, lo, mid, upper)
            ELSE upper

calculate_sizes_from_dominators(cg, dom_tree, reachable) ==
    LET retained == SizesLoop(cg, dom_tree, reachable, 0, compact_node_count(cg) - 1, <<>>)
    IN [n \in DOMAIN retained |-> [owned |-> retained[n], shared |-> 0]]

calculate_retained_sizes(cg, order) ==
    LET reverse_edges == build_reverse_graph(cg)
        reachable     == find_reachable_from_roots(cg)
        doms          == calculate_dominators(cg, reverse_edges, order)
        dom_tree      == build_dominator_tree(doms.dominators, compact_node_count(cg))
    IN [hang       |-> doms.hang,
        converged  |-> doms.converged,
        reachable  |-> reachable,
        dominators |-> doms.dominators,
        sizes      |-> IF doms.hang THEN <<>>
                       ELSE calculate_sizes_from_dominators(cg, dom_tree, reachable)]

(***************************************************************************)
(* CompactGraph with names: node_names and edge_names index the string     *)
(* table of the snapshot.  A string is modelled by a code for its content: *)
(* two indices of the table may carry the same content.                    *)
(***************************************************************************)
\* StringTable::get: None for an index outside the table
StringTableGet(strings, index) ==
    IF index < Len(strings) THEN strings[index + 1] ELSE None

\* the CompactGraph of a snapshot whose node tuples carry a name and whose
\* edge tuples carry a name_or_index (add_nodes, add_edges, finalize)
WithNames(cg, s) ==
    [node_types       |-> cg.node_types,
     node_sizes       |-> cg.node_sizes,
     node_edge_ranges |-> cg.node_edge_ranges,
     edge_types       |-> cg.edge_types,
     edge_targets     |-> cg.edge_targets,
     gc_roots         |-> cg.gc_roots,
     node_names       |-> [n \in DOMAIN s.nodes |-> s.nodes[n].name],
     edge_names       |-> [i \in DOMAIN s.edges |-> s.edges[i].name_or_index],
     string_table     |-> s.strings]

NamedCompactGraphFrom(s) == WithNames(CompactGraphFrom(s), s)

compact_node_type(cg, node_id) == cg.node_types[node_id]

\* CompactGraph::node_name: the string the node's name index stands for
compact_node_name(cg, node_id) ==
    StringTableGet(cg.string_table, cg.node_names[node_id])

compact_node_size(cg, node_id) == cg.node_sizes[node_id]

\* CompactGraph::edges(node_id) as the iterator yields them: Edge records in
\* stored order
compact_edge_records(cg, node_id) ==
    LET r == compact_edge_range(cg, node_id)
    IN [k \in 1 .. (r.end - r.start) |->
           [edge_type     |-> cg.edge_types[r.start + k],
            name_or_index |-> cg.edge_names[r.start + k],
            target        |-> cg.edge_targets[r.start + k]]]

(***************************************************************************)
(* DuplicateAnalyzer.  A hasher is modelled by the sequence of the values  *)
(* written to it, read as the digits of a number: distinct sequences of    *)
(* writes finish with distinct hashes (no collisions), equal sequences     *)
(* with equal hashes.                                                      *)
(***************************************************************************)
\* the radix of the hasher state: above every value written plus one
HashBase == 8

\* DefaultHasher::new().finish()
hasher_new == 0

\* value.hash(&mut hasher)
hasher_write(h, value) == h * HashBase + value + 1

\* the number of elements that a stable ascending sort by `keys` places
\* before element i
SortRank(keys, i) ==
    Cardinality({j \in DOMAIN keys : \/ keys[j] < keys[i]
                                     \/ (keys[j] = keys[i] /\ j < i)})

\* slice::sort_by_key / sort_by: the stable sort of s ascending by keys
StableSort(s, keys) ==
    [r \in 1 .. Len(s) |-> s[CHOOSE i \in DOMAIN s : SortRank(keys, i) = r - 1]]

\* hash_string
hash_string(content) == hasher_write(hasher_new, content)

\* a variant of hash_edges that never skips an edge
RECURSIVE hash_edges_all(_, _, _)
hash_edges_all(h, edges, include_hidden_classes) ==
    IF edges = <<>> THEN h
    ELSE LET edge == Head(edges)
         IN hash_edges_all(
                hasher_write(hasher_write(hasher_write(h, edge.edge_type),
                                          edge.name_or_index),
                             edge.target),
                Tail(edges), include_hidden_classes)

\* the loop of hash_object over the sorted edges
RECURSIVE hash_edges(_, _, _)
hash_edges(h, edges, include_hidden_classes) ==
    IF edges = <<>> THEN h
    ELSE LET edge == Head(edges)
         IN IF ~include_hidden_classes /\ edge.edge_type = EdgeHidden
            THEN hash_edges(h, Tail(edges), include_hidden_classes)
            ELSE hash_edges(
                     hasher_write(hasher_write(hasher_write(h, edge.edge_type),
                                               edge.name_or_index),
                                  edge.target),
                     Tail(edges), include_hidden_classes)

sorted_edges(edges) ==
    StableSort(edges, [k \in DOMAIN edges |-> edges[k].name_or_index])

hash_object(cg, include_hidden_classes, node_id) ==
    LET name == compact_node_name(cg, node_id)
        h0   == IF name = None THEN hasher_new ELSE hasher_write(hasher_new, name)
    IN hash_edges(h0, sorted_edges(compact_edge_records(cg, node_id)),
                  include_hidden_classes)

\* a variant of string_hash_fn that hashes the index of the name in the
\* string table instead of the string
string_hash_fn_index(cg, node_id) ==
    IF compact_node_name(cg, node_id) = None THEN None
    ELSE hash_string(cg.node_names[node_id])

\* the hash_fn closure of find_duplicate_strings
string_hash_fn(cg, node_id) ==
    LET name == compact_node_name(cg, node_id)
    IN IF name = None THEN None ELSE hash_string(name)

calculate_total_size(cg, node_id) == compact_node_size(cg, node_id)

\* the loop of find_duplicates_by_type: the hash map from hash to the nodes
\* of the type that have it, in ascending NodeId order.  hashes[n] is
\* hash_fn(n), None when the closure returns None
hash_map_by_type(cg, node_type, hashes) ==
    LET hashed == SelectSeq([k \in 1 .. compact_node_count(cg) |-> k - 1],
                            LAMBDA n : /\ compact_node_type(cg, n) = node_type
                                       /\ hashes[n] # None)
    IN [h \in {hashes[n] : n \in Range(hashed)} |->
           SelectSeq(hashed, LAMBDA n : hashes[n] = h)]

\* a variant of duplicate_group that counts every object of the group as
\* wasted
duplicate_group_all(cg, hash, node_ids, type_name) ==
    [hash            |-> hash,
     object_type     |-> [text |-> type_name, name |-> None],
     count           |-> Len(node_ids),
     size_per_object |-> calculate_total_size(cg, node_ids[1]),
     total_wasted    |-> Len(node_ids) * calculate_total_size(cg, node_ids[1]),
     representative  |-> node_ids[1],
     node_ids        |-> node_ids]

\* the DuplicateGroup pushed for one entry of the hash map (the fields
\* sample_value, owned_retained_size and shared_retained_size are left out)
duplicate_group(cg, hash, node_ids, type_name) ==
    LET representative == node_ids[1]
        size           == calculate_total_size(cg, representative)
        count          == Len(node_ids)
    IN [hash            |-> hash,
        object_type     |-> IF type_name = "String"
                            THEN [text |-> "String", name |-> None]
                            ELSE IF compact_node_name(cg, representative) = None
                                 THEN [text |-> type_name, name |-> None]
                                 ELSE [text |-> "name",
                                       name |-> compact_node_name(cg, representative)],
        count           |-> count,
        size_per_object |-> size,
        total_wasted    |-> (count - 1) * size,
        representative  |-> representative,
        node_ids        |-> node_ids]

\* create_groups: `order` is the order in which the hash map is iterated
RECURSIVE create_groups(_, _, _, _)
create_groups(cg, hash_map, order, type_name) ==
    IF order = <<>> THEN <<>>
    ELSE LET hash == Head(order)
             rest == create_groups(cg, hash_map, Tail(order), type_name)
         IN IF Len(hash_map[hash]) > 1
            THEN <<duplicate_group(cg, hash, hash_map[hash], type_name)>> \o rest
            ELSE rest

\* the hash maps of find_duplicate_strings and find_duplicate_objects
string_hash_map(cg) ==
    hash_map_by_type(cg, NodeString,
                     [n \in DOMAIN cg.node_types |-> string_hash_fn(cg, n)])

object_hash_map(cg, include_hidden_classes) ==
    hash_map_by_type(cg, NodeObject,
                     [n \in DOMAIN cg.node_types |->
                         hash_object(cg, include_hidden_classes, n)])

find_duplicate_strings(cg, order) ==
    create_groups(cg, string_hash_map(cg), order, "String")

find_duplicate_objects(cg, include_hidden_classes, order) ==
    create_groups(cg, object_hash_map(cg, include_hidden_classes), order, "Object")

\* a variant of sort_by_total_wasted that leaves the list as it is
sort_by_nothing(groups) == groups

\* all_groups.sort_by(|a, b| b.total_wasted.cmp(&a.total_wasted))
sort_by_total_wasted(groups) ==
    StableSort(groups, [k \in DOMAIN groups |-> 0 - groups[k].total_wasted])

\* find_duplicates, together with the two lists it is made of
find_duplicates(cg, include_hidden_classes, string_order, object_order) ==
    [include_hidden_classes |-> include_hidden_classes,
     strings |-> find_duplicate_strings(cg, string_order),
     objects |-> find_duplicate_objects(cg, include_hidden_classes, object_order),
     all     |-> sort_by_total_wasted(
                     find_duplicate_strings(cg, string_order)
                     \o find_duplicate_objects(cg, include_hidden_classes, object_order))]

(***************************************************************************)
(* HiddenClassAnalyzer.                                                    *)
(***************************************************************************)
\* find_object_type_for_hidden_class: the name of the node
find_object_type_for_hidden_class(cg, hidden_class_id) ==
    compact_node_name(cg, hidden_class_id)

\* the first loop of analyze: the map from type name to the nodes of type 4
\* that have it, in ascending NodeId order
type_to_hidden_classes(cg) ==
    LET found == SelectSeq([k \in 1 .. compact_node_count(cg) |-> k - 1],
                           LAMBDA n : /\ compact_node_type(cg, n) = NodeCode
                                      /\ find_object_type_for_hidden_class(cg, n) # None)
    IN [type_name \in {find_object_type_for_hidden_class(cg, n) : n \in Range(found)} |->
           SelectSeq(found, LAMBDA n : find_object_type_for_hidden_class(cg, n) = type_name)]

\* a variant of hidden_class_group that counts the memory of the first
\* hidden class only
hidden_class_group_first(cg, object_type, hidden_classes) ==
    [object_type               |-> object_type,
     hidden_class_count        |-> Len(hidden_classes),
     total_hidden_class_memory |-> compact_node_size(cg, hidden_classes[1]),
     hidden_classes            |-> hidden_classes]

\* the HiddenClassGroup made of one entry of the map
hidden_class_group(cg, object_type, hidden_classes) ==
    [object_type               |-> object_type,
     hidden_class_count        |-> Len(hidden_classes),
     total_hidden_class_memory |->
         SeqSum([k \in DOMAIN hidden_classes |-> compact_node_size(cg, hidden_classes[k])]),
     hidden_classes            |-> hidden_classes]

\* groups.sort_by(|a, b| b.total_hidden_class_memory.cmp(&a.total_hidden_class_memory))
sort_by_total_memory(groups) ==
    StableSort(groups, [k \in DOMAIN groups |-> 0 - groups[k].total_hidden_class_memory])

\* analyze: `order` is the order in which the map is iterated
analyze(cg, order) ==
    sort_by_total_memory(
        [k \in DOMAIN order |->
            hidden_class_group(cg, order[k], type_to_hidden_classes(cg)[order[k]])])

(***************************************************************************)
(* RootPaths: the breadth-first index of find_root_paths and the paths     *)
(* paths_to enumerates from it.                                            *)
(***************************************************************************)
\* the NodeId find_root_paths marks as seen before the search starts
SeenAtStart == 0
\* the NodeId for which paths_to returns the empty path
EmptyPathNode == 0

\* graph.out_edges(node) as find_root_paths iterates it: the edges of the
\* node's block as Edge values with their id and to_node()
out_edge_values(g, node) ==
    [k \in 1 .. edge_count_for(g, node) |->
        [id      |-> out_edges(g, node)[k],
         to_node |-> to_node(g, out_edges(g, node)[k])]]

\* the for loop of find_root_paths over the out-edges of one node
RECURSIVE scan_out_edges(_, _)
scan_out_edges(edges, st) ==
    IF edges = <<>> THEN st
    ELSE LET edge == Head(edges)
         IN IF edge.to_node \notin st.seen
            THEN scan_out_edges(Tail(edges),
                     [paths |-> [st.paths EXCEPT ![edge.to_node] = Append(@, edge.id)],
                      queue |-> Append(st.queue, edge.to_node),
                      seen  |-> st.seen \cup {edge.to_node}])
            ELSE scan_out_edges(Tail(edges), st)

\* the while loop of find_root_paths
RECURSIVE search_loop(_, _)
search_loop(g, st) ==
    IF st.queue = <<>> THEN st
    ELSE search_loop(g, scan_out_edges(out_edge_values(g, Head(st.queue)),
                                       [st EXCEPT !.queue = Tail(@)]))

\* find_root_paths(graph, root): RootPaths.paths
find_root_paths(g, root) ==
    search_loop(g, [paths |-> [n \in NodeIds(g.node_count) |-> <<>>],
                    queue |-> <<root>>,
                    seen  |-> {SeenAtStart}]).paths

\* RootPaths::paths_to(node, graph).  The recursion follows the recorded
\* segments back; `fuel` counts the nested calls left, and a call that needs
\* more than node_count + 1 of them revisits a node and never returns
\* (diverged)
RECURSIVE paths_to_fuel(_, _, _, _)
RECURSIVE extend_parent_paths(_, _, _, _, _)
extend_parent_paths(paths, segments, g, fuel, ret) ==
    IF segments = <<>> THEN [diverged |-> FALSE, paths |-> ret]
    ELSE LET segment == Head(segments)
             parent  == paths_to_fuel(paths, from_node(g, segment), g, fuel)
         IN IF parent.diverged THEN parent
            ELSE extend_parent_paths(paths, Tail(segments), g, fuel,
                     ret \o [k \in DOMAIN parent.paths |->
                                Append(parent.paths[k], segment)])

paths_to_fuel(paths, node, g, fuel) ==
    IF node = EmptyPathNode THEN [diverged |-> FALSE, paths |-> << <<>> >>]
    ELSE IF fuel = 0 THEN [diverged |-> TRUE, paths |-> <<>>]
    ELSE extend_parent_paths(paths, paths[node], g, fuel - 1, <<>>)

paths_to(paths, node, g) == paths_to_fuel(paths, node, g, g.node_count + 1)

(***************************************************************************)
(* RetentionPathFinder: breadth-first search from all GC roots of the      *)
(* CompactGraph.  The edge_names of a RetentionPath are left out.          *)
(***************************************************************************)
\* CompactGraph::edges(node_id) as find_paths reads it: edge_type and target
compact_typed_edges(cg, node_id) ==
    LET r == compact_edge_range(cg, node_id)
    IN [k \in 1 .. (r.end - r.start) |->
           [edge_type |-> cg.edge_types[r.start + k],
            target    |-> cg.edge_targets[r.start + k]]]

\* the first loop of find_paths: every GC root is queued and visited with
\* no parent
RECURSIVE start_from_roots(_, _)
start_from_roots(gc_roots, st) ==
    IF gc_roots = <<>> THEN st
    ELSE start_from_roots(Tail(gc_roots),
             [paths   |-> st.paths,
              queue   |-> Append(st.queue, Head(gc_roots)),
              visited |-> (Head(gc_roots) :> [parent |-> None, edge_type |-> 0])
                              @@ st.visited])

\* the while loop of reconstruct_path: from `current` back to a node
\* without parent; nodes and edge_types are collected in that order
RECURSIVE walk_back(_, _, _, _)
walk_back(visited, current, nodes, edge_types) ==
    IF current \in DOMAIN visited /\ visited[current].parent # None
    THEN walk_back(visited, visited[current].parent,
                   Append(nodes, visited[current].parent),
                   Append(edge_types, visited[current].edge_type))
    ELSE [nodes |-> nodes, edge_types |-> edge_types]

\* Vec::reverse
Reverse(s) == [k \in 1 .. Len(s) |-> s[Len(s) + 1 - k]]

\* a variant of reconstruct_path that leaves the nodes in walking order
reconstruct_path_unreversed(visited, target) ==
    LET walked == walk_back(visited, target, <<target>>, <<>>)
    IN [length     |-> Len(walked.nodes),
        nodes      |-> walked.nodes,
        edge_types |-> walked.edge_types]

reconstruct_path(visited, target) ==
    LET walked == walk_back(visited, target, <<target>>, <<>>)
    IN [length     |-> Len(walked.nodes),
        nodes      |-> Reverse(walked.nodes),
        edge_types |-> Reverse(walked.edge_types)]

\* the for loop of find_paths over the edges of `current`
RECURSIVE explore_edges(_, _, _)
explore_edges(edges, current, st) ==
    IF edges = <<>> THEN st
    ELSE LET edge == Head(edges)
         IN IF edge.target \notin DOMAIN st.visited
            THEN explore_edges(Tail(edges), current,
                     [paths   |-> st.paths,
                      queue   |-> Append(st.queue, edge.target),
                      visited |-> (edge.target :> [parent    |-> current,
                                                   edge_type |-> edge.edge_type])
                                      @@ st.visited])
            ELSE explore_edges(Tail(edges), current, st)

\* the while loop of find_paths
RECURSIVE search_paths(_, _, _, _)
search_paths(cg, target, max_paths, st) ==
    IF st.queue = <<>> THEN st.paths
    ELSE LET current == Head(st.queue)
             popped  == [st EXCEPT !.queue = Tail(@)]
         IN IF current = target
            THEN IF Len(st.paths) + 1 >= max_paths
                 THEN Append(st.paths, reconstruct_path(st.visited, target))
                 ELSE search_paths(cg, target, max_paths,
                          [popped EXCEPT !.paths =
                              Append(@, reconstruct_path(st.visited, target))])
            ELSE search_paths(cg, target, max_paths,
                     explore_edges(compact_typed_edges(cg, current), current, popped))

\* RetentionPathFinder::find_paths
find_paths(cg, target, max_paths) ==
    search_paths(cg, target, max_paths,
                 start_from_roots(cg.gc_roots,
                                  [paths |-> <<>>, queue |-> <<>>, visited |-> <<>>]))

(***************************************************************************)
(* filter_subset_paths: paths contained in other paths are dropped.        *)
(***************************************************************************)
\* a variant of is_subset without the length test: a path is also a subset
\* of an equal path
is_subset_or_equal(path_a, path_b) ==
    \E k \in 1 .. (Len(path_b) - Len(path_a) + 1) :
        SubSeq(path_b, k, k + Len(path_a) - 1) = path_a

\* is_subset: path_a is shorter than path_b and equals one of the windows of
\* its length of path_b
is_subset(path_a, path_b) ==
    IF Len(path_a) >= Len(path_b) THEN FALSE
    ELSE \E k \in 1 .. (Len(path_b) - Len(path_a) + 1) :
             SubSeq(path_b, k, k + Len(path_a) - 1) = path_a

\* the two loops of filter_subset_paths: the indices (from 0) to remove, in
\* ascending order
to_remove(paths) ==
    SelectSeq([k \in 1 .. Len(paths) |-> k - 1],
              LAMBDA i : \E j \in 0 .. (Len(paths) - 1) :
                             i # j /\ is_subset(paths[i + 1].nodes, paths[j + 1].nodes))

\* Vec::remove(idx)
VecRemove(v, idx) ==
    [k \in 1 .. (Len(v) - 1) |-> IF k <= idx THEN v[k] ELSE v[k + 1]]

\* the removal loop, over the indices in reverse
RECURSIVE remove_reversed(_, _)
remove_reversed(paths, indices) ==
    IF indices = <<>> THEN paths
    ELSE remove_reversed(VecRemove(paths, indices[Len(indices)]),
                         SubSeq(indices, 1, Len(indices) - 1))

filter_subset_paths(paths) == remove_reversed(paths, to_remove(paths))

(***************************************************************************)
(* Loading a snapshot that may be malformed.                               *)
(***************************************************************************)
\* the sum of the edge_count fields of the node tuples: the number of times
\* the loop of From<SnapshotFile> runs edges.to1(edge_idx)
CountedEdges(s) ==
    LET ends == BlockEnds(s, 0, SnapshotTupleCount(s) - 1, 0)
    IN  IF ends = <<>> THEN 0 ELSE ends[Len(ends)]

\* V8HeapGraph::from on any snapshot.  For every edge id that the nodes'
\* edge counts reach, edges.to1(edge_idx) panics when the edge array is
\* shorter, and node_in_edges[to_node] panics when to_node is no index of
\* the header's node count.  An edge tuple behind the counted ones is never
\* looked at, and nothing in the load converts a type tag.
V8HeapGraphTryFrom(s) ==
    IF \E edge_idx \in 0 .. CountedEdges(s) - 1 :
           \/ edge_idx >= Len(s.edges)
           \/ s.edges[edge_idx + 1].to_node \div NodeStride >= SnapshotNodeCount(s)
    THEN [status |-> "panic"]
    ELSE [status |-> "ok", graph |-> V8HeapGraphFrom(s)]

(***************************************************************************)
(* The dominator-tree explorer (report/explorer.rs).  A UI tree is the     *)
(* function from a node's id to the sequence of its children's ids; the    *)
(* root is the node built for heap node 0.  usize and isize are kept at    *)
(* UsizeBits bits, so that the negation in move_selection can overflow.    *)
(***************************************************************************)
UsizeBits == 8
UsizeMAX == 2 ^ UsizeBits - 1
U16MAX == 65535
IsizeMIN == 0 - 2 ^ (UsizeBits - 1)
UiRootId == 0
NoPanic == "none"

\* Ord::min
Min(a, b) == IF a <= b THEN a ELSE b

\* usize::saturating_sub
saturating_sub(a, b) == IF a >= b THEN a - b ELSE 0

\* `(-delta) as usize` in a build without overflow checks: two's complement.
wrapping_neg_as_usize(delta) == (0 - delta) % (2 ^ UsizeBits)

RECURSIVE flatten_recursive(_, _, _, _)
RECURSIVE flatten_children(_, _, _, _)
\* the loop over node.children
flatten_children(root, children, expanded, depth) ==
    IF children = <<>> THEN <<>>
    ELSE flatten_recursive(root, Head(children), expanded, depth)
         \o flatten_children(root, Tail(children), expanded, depth)

flatten_recursive(root, node, expanded, depth) ==
    <<[node |-> node, depth |-> depth]>>
    \o (IF node \in expanded
        THEN flatten_children(root, root[node], expanded, depth + 1)
        ELSE <<>>)

flatten_tree(root, expanded) == flatten_recursive(root, UiRootId, expanded, 0)

ExplorerStateNew(root) ==
    [selected |-> 0,
     tree_scroll_offset |-> 0,
     inspector_scroll_offset |-> 0,
     height |-> 0,
     expanded |-> {UiRootId},
     flat_list |-> flatten_tree(root, {UiRootId}),
     root |-> root,
     info_open |-> FALSE,
     focus |-> "Tree",
     panic |-> NoPanic]

\* set_selection without the second comparison, which pulls the offset back
\* down to the selection
set_selection_one_sided(st, selected) ==
    LET s1 == [st EXCEPT !.inspector_scroll_offset =
                             IF selected # st.selected THEN 0 ELSE @,
                         !.selected = selected]
    IN  IF s1.selected >= s1.tree_scroll_offset + s1.height
        THEN [s1 EXCEPT !.tree_scroll_offset = s1.selected - s1.height + 1]
        ELSE s1

set_selection(st, selected) ==
    LET s1 == [st EXCEPT !.inspector_scroll_offset =
                             IF selected # st.selected THEN 0 ELSE @,
                         !.selected = selected]
        s2 == IF s1.selected >= s1.tree_scroll_offset + s1.height
              THEN [s1 EXCEPT !.tree_scroll_offset = s1.selected - s1.height + 1]
              ELSE s1
    IN  IF s2.selected < s2.tree_scroll_offset
        THEN [s2 EXCEPT !.tree_scroll_offset = s2.selected]
        ELSE s2

\* flat_list[selected] panics when the index is out of bounds
IndexPanics(st) == st.selected >= Len(st.flat_list)

selected_id(st) == st.flat_list[st.selected + 1].node

\* overflow_checks: whether the build panics on arithmetic overflow (debug
\* profile) or wraps (release profile).
move_selection(st, delta, overflow_checks) ==
    IF delta > 0
    THEN set_selection(st, Min(st.selected + delta, Len(st.flat_list) - 1))
    ELSE IF delta = IsizeMIN /\ overflow_checks
         THEN [st EXCEPT !.panic = "attempt to negate with overflow"]
         ELSE set_selection(st, saturating_sub(st.selected,
                                               wrapping_neg_as_usize(delta)))

update_flat_list(st) ==
    [st EXCEPT !.flat_list = flatten_tree(st.root, st.expanded)]

toggle_selected(st) ==
    IF IndexPanics(st) THEN [st EXCEPT !.panic = "index out of bounds"]
    ELSE LET node_id == selected_id(st)
         IN  IF st.root[node_id] # <<>>
             THEN update_flat_list(
                      [st EXCEPT !.expanded = IF node_id \in @
                                              THEN @ \ {node_id}
                                              ELSE @ \cup {node_id}])
             ELSE st

expand_selected(st) ==
    IF IndexPanics(st) THEN [st EXCEPT !.panic = "index out of bounds"]
    ELSE LET node_id == selected_id(st)
         IN  IF st.root[node_id] # <<>> /\ node_id \notin st.expanded
             THEN update_flat_list([st EXCEPT !.expanded = @ \cup {node_id}])
             ELSE st

RECURSIVE collapse_parent(_, _, _)
\* for i in (0..self.selected).rev(): `i` is the next index to look at plus
\* one, so the loop ends at 0.
collapse_parent(st, current_depth, i) ==
    IF i = 0 THEN st
    ELSE IF st.flat_list[i].depth < current_depth
         THEN LET parent_id == st.flat_list[i].node
              IN  IF parent_id \in st.expanded
                  THEN set_selection(
                           update_flat_list(
                               [st EXCEPT !.expanded = @ \ {parent_id}]),
                           i - 1)
                  ELSE st
         ELSE collapse_parent(st, current_depth, i - 1)

collapse_selected(st) ==
    IF IndexPanics(st) THEN [st EXCEPT !.panic = "index out of bounds"]
    ELSE LET node_id == selected_id(st)
         IN  IF node_id \in st.expanded
             THEN update_flat_list([st EXCEPT !.expanded = @ \ {node_id}])
             ELSE LET current_depth == st.flat_list[st.selected + 1].depth
                  IN  IF current_depth > 0
                      THEN collapse_parent(st, current_depth, st.selected)
                      ELSE st

\* The part of draw that reads the selection: the slice of flat_list that is
\* shown, the highlighted row `selected - tree_scroll_offset`, and the
\* inspector's selected_node().  frame_height is the height of the terminal
\* less the five rows of chrome.
draw(st, frame_height, overflow_checks) ==
    LET s1 == [st EXCEPT !.height = frame_height]
        slice_end == Min(s1.tree_scroll_offset + s1.height, Len(s1.flat_list))
    IN  IF s1.tree_scroll_offset > slice_end
        THEN [s1 EXCEPT !.panic = "slice index starts past its end"]
        ELSE IF /\ s1.focus = "Tree"
                /\ s1.selected < s1.tree_scroll_offset
                /\ overflow_checks
             THEN [s1 EXCEPT !.panic = "attempt to subtract with overflow"]
             ELSE IF s1.info_open /\ IndexPanics(s1)
                  THEN [s1 EXCEPT !.panic = "index out of bounds"]
                  ELSE s1

TreeKeys == {"g", "Down", "PageDown", "Up", "PageUp", "Right", "Enter", "Left"}
MoveKeys == {"g", "Down", "PageDown", "Up", "PageUp"}
Keys == TreeKeys \cup {"i", "Tab", "q", "other"}

\* the match on key.code under `state.focus == Focus::Tree`
tree_key(st, key, overflow_checks) ==
    CASE key = "g" -> move_selection(st, IsizeMIN, overflow_checks)
      [] key = "Down" -> move_selection(st, 1, overflow_checks)
      [] key = "PageDown" -> move_selection(st, st.height, overflow_checks)
      [] key = "Up" -> move_selection(st, 0 - 1, overflow_checks)
      [] key = "PageUp" -> move_selection(st, 0 - st.height, overflow_checks)
      [] key = "Right" -> expand_selected(st)
      [] key = "Enter" -> toggle_selected(st)
      [] key = "Left" -> collapse_selected(st)
      [] OTHER -> st

\* `usize as u16`: the low 16 bits
as_u16(n) == n % (U16MAX + 1)

\* `inspector_scroll_offset += n` on a u16: past u16::MAX a build with
\* overflow checks panics and a build without them wraps
inspector_scroll_add(st, n, overflow_checks) ==
    IF st.inspector_scroll_offset + n > U16MAX
    THEN IF overflow_checks
         THEN [st EXCEPT !.panic = "attempt to add with overflow"]
         ELSE [st EXCEPT !.inspector_scroll_offset = as_u16(@ + n)]
    ELSE [st EXCEPT !.inspector_scroll_offset = @ + n]

\* the match on key.code under `state.focus == Focus::Inspector`
inspector_key(st, key, overflow_checks) ==
    CASE key = "g" -> [st EXCEPT !.inspector_scroll_offset = 0]
      [] key = "Down" -> inspector_scroll_add(st, 1, overflow_checks)
      [] key = "PageDown" ->
            inspector_scroll_add(st, as_u16(st.height), overflow_checks)
      [] key = "Up" ->
            [st EXCEPT !.inspector_scroll_offset = saturating_sub(@, 1)]
      [] key = "PageUp" ->
            [st EXCEPT !.inspector_scroll_offset =
                           saturating_sub(@, as_u16(st.height))]
      [] OTHER -> st

\* the last match of handle_input: keys that work under either focus
global_key(st, key) ==
    CASE key = "i" ->
            [st EXCEPT !.info_open = ~@,
                       !.focus = IF st.info_open /\ st.focus = "Inspector"
                                 THEN "Tree" ELSE @]
      [] key = "Tab" ->
            [st EXCEPT !.focus = IF st.focus = "Tree" /\ st.info_open
                                 THEN "Inspector"
                                 ELSE IF st.focus = "Inspector" THEN "Tree"
                                 ELSE @]
      [] OTHER -> st

handle_input(st, key, overflow_checks) ==
    LET s1 == IF st.focus = "Tree" THEN tree_key(st, key, overflow_checks)
              ELSE st
        s2 == IF s1.panic = NoPanic /\ s1.focus = "Inspector"
              THEN inspector_key(s1, key, overflow_checks)
              ELSE s1
    IN  IF s2.panic # NoPanic THEN s2 ELSE global_key(s2, key)

(***************************************************************************)
(* The state machine.                                                      *)
(***************************************************************************)
\* largest number of Weak edges of a snapshot
MaxWeakEdges == 1

DefaultSizes == [n \in Nodes |-> 10 * (n + 1)]
\* a synthetic root of size 0 and sizes whose sums tell the summed nodes apart
RootlessSizes == [n \in Nodes |-> IF n = 0 THEN 0 ELSE 2 ^ (n - 1)]
SelfSizeChoices == {DefaultSizes, RootlessSizes}
ObjectTypes == [n \in Nodes |-> NodeObject]

WeakCount(s) == Cardinality({i \in DOMAIN s.edges : s.edges[i].typ = EdgeWeak})

Init ==
    /\ pc = "snapshot"
    /\ snap = EmptySnapshot(DefaultSizes, ObjectTypes)
    /\ graph = NoValue
    /\ roots = <<>>
    /\ ltOut = NoValue
    /\ tree = NoValue
    /\ compact = NoValue
    /\ rsOut = NoValue
    /\ analysis = NoValue

InitSizes ==
    /\ pc = "snapshot"
    /\ \E sizes \in SelfSizeChoices : snap = EmptySnapshot(sizes, ObjectTypes)
    /\ graph = NoValue
    /\ roots = <<>>
    /\ ltOut = NoValue
    /\ tree = NoValue
    /\ compact = NoValue
    /\ rsOut = NoValue
    /\ analysis = NoValue

\* the snapshot grows by one edge, appended to the block of `from`
AddEdge(typs, max) ==
    /\ pc = "snapshot"
    /\ Len(snap.edges) < max
    /\ \E from \in Nodes, to \in Nodes, typ \in typs :
          /\ from >= LastSource(snap)
          /\ typ = EdgeWeak => WeakCount(snap) < MaxWeakEdges
          /\ snap' = SnapshotWithEdge(snap, from, typ, to)
    /\ UNCHANGED <<pc, graph, roots, ltOut, tree, compact, rsOut, analysis>>

\* V8HeapGraph::from(snapshot)
Load ==
    /\ pc = "snapshot"
    /\ graph' = V8HeapGraphFrom(snap)
    /\ pc' = "graph"
    /\ UNCHANGED <<snap, roots, ltOut, tree, compact, rsOut, analysis>>

\* lengauer_tarjan(&graph, &[r])
LengauerTarjan ==
    /\ pc = "graph"
    /\ \E r \in Nodes :
          /\ roots' = <<r>>
          /\ ltOut' = lengauer_tarjan(graph, <<r>>)
    /\ pc' = "idom"
    /\ UNCHANGED <<snap, graph, tree, compact, rsOut, analysis>>

\* lengauer_tarjan(&graph, &[r1, r2]) with two distinct roots
LengauerTarjanRoots ==
    /\ pc = "graph"
    /\ \E r1 \in Nodes, r2 \in Nodes :
          /\ r1 # r2
          /\ roots' = <<r1, r2>>
          /\ ltOut' = lengauer_tarjan(graph, <<r1, r2>>)
    /\ pc' = "idom"
    /\ UNCHANGED <<snap, graph, tree, compact, rsOut, analysis>>

\* tree_from_immediate_dominators(idom, &graph); the map is iterated in any order
TreeFromImmediateDominators ==
    /\ pc = "idom"
    /\ ltOut.status = "ok"
    /\ \E order \in Orderings(DOMAIN ltOut.idom) :
          tree' = tree_from_immediate_dominators(ltOut.idom, order, graph)
    /\ pc' = "tree"
    /\ UNCHANGED <<snap, graph, roots, ltOut, compact, rsOut, analysis>>

\* the caller has an immediate-dominator map of its own: any map from some
\* of the nodes to nodes
GivenImmediateDominators ==
    /\ pc = "graph"
    /\ \E keys \in SUBSET Nodes :
          \E idom \in [keys -> Nodes] :
              ltOut' = [status |-> "ok", idom |-> idom]
    /\ roots' = <<DesignatedRoot>>
    /\ pc' = "idom"
    /\ UNCHANGED <<snap, graph, tree, compact, rsOut, analysis>>

\* one node is the synthetic GC root; the others are objects
InitOneGcRoot ==
    /\ pc = "snapshot"
    /\ \E sizes \in SelfSizeChoices, r \in Nodes :
          snap = EmptySnapshot(sizes, [n \in Nodes |-> IF n = r THEN NodeSynthetic
                                                       ELSE NodeObject])
    /\ graph = NoValue
    /\ roots = <<>>
    /\ ltOut = NoValue
    /\ tree = NoValue
    /\ compact = NoValue
    /\ rsOut = NoValue
    /\ analysis = NoValue

\* GraphBuilder: add_nodes, add_edges, finalize
Build ==
    /\ pc = "snapshot"
    /\ compact' = CompactGraphFrom(snap)
    /\ pc' = "compact"
    /\ UNCHANGED <<snap, graph, roots, ltOut, tree, rsOut, analysis>>

\* calculate_retained_sizes(&graph); the hash set of reachable nodes is
\* iterated in one of the given orders
CalculateRetainedSizes(orders) ==
    /\ pc = "compact"
    /\ \E order \in orders :
          rsOut' = calculate_retained_sizes(compact, order)
    /\ pc' = "retained"
    /\ UNCHANGED <<snap, graph, roots, ltOut, tree, compact, analysis>>

Next ==
    \/ AddEdge({EdgeProperty}, MaxEdges)
    \/ Load
    \/ LengauerTarjan

Spec == Init /\ [][Next]_vars

NextTree ==
    \/ AddEdge({EdgeProperty, EdgeWeak}, MaxEdgesShort)
    \/ Load
    \/ LengauerTarjan
    \/ TreeFromImmediateDominators

SpecTree == InitSizes /\ [][NextTree]_vars

\* a snapshot of the synthetic GC root alone
InitChain ==
    /\ pc = "snapshot"
    /\ snap = [nodes |-> [n \in NodeIds(1) |->
                            [typ |-> NodeSynthetic, self_size |-> 10, edge_count |-> 0]],
               edges |-> <<>>,
               snapshot |-> [node_count |-> 1]]
    /\ graph = NoValue
    /\ roots = <<>>
    /\ ltOut = NoValue
    /\ tree = NoValue
    /\ compact = NoValue
    /\ rsOut = NoValue
    /\ analysis = NoValue

\* the snapshot grows by one object, referenced by the last node of the chain
AddChainNode ==
    /\ pc = "snapshot"
    /\ SnapshotTupleCount(snap) < MaxChainNodes
    /\ LET k == SnapshotTupleCount(snap)
       IN snap' = [nodes |-> [n \in NodeIds(k + 1) |->
                                IF n = k
                                THEN [typ |-> NodeObject, self_size |-> 10, edge_count |-> 0]
                                ELSE IF n = k - 1
                                THEN [snap.nodes[n] EXCEPT !.edge_count = 1]
                                ELSE snap.nodes[n]],
                   edges |-> Append(snap.edges,
                                    [typ |-> EdgeProperty, to_node |-> k * NodeStride]),
                   snapshot |-> [node_count |-> k + 1]]
    /\ UNCHANGED <<pc, graph, roots, ltOut, tree, compact, rsOut, analysis>>

NextGiven ==
    \/ Load
    \/ GivenImmediateDominators
    \/ TreeFromImmediateDominators

SpecGiven == InitSizes /\ [][NextGiven]_vars

NextChain ==
    \/ AddChainNode
    \/ Build
    \/ CalculateRetainedSizes({Ascending(find_reachable_from_roots(compact)),
                               Descending(find_reachable_from_roots(compact))})

SpecChain == InitChain /\ [][NextChain]_vars

NextRetained ==
    \/ AddEdge({EdgeProperty}, MaxEdgesShort)
    \/ Build
    \/ CalculateRetainedSizes(Orderings(find_reachable_from_roots(compact)))

SpecRetained == InitOneGcRoot /\ [][NextRetained]_vars

NextRoots ==
    \/ AddEdge({EdgeProperty}, MaxEdgesShort)
    \/ Load
    \/ LengauerTarjanRoots

SpecRoots == Init /\ [][NextRoots]_vars

\* the string table of the snapshots with names: the strings at indices 1
\* and 3 are equal
SnapshotStrings == <<0, 1, 2, 1>>
\* the name indices of nodes: the last one lies outside the string table
NameIndexes == 1 .. Len(SnapshotStrings)
\* nodes 2k and 2k + 1 have the same self size
PairedSizes == [n \in Nodes |-> 10 * ((n \div 2) + 1)]
\* largest number of edges of one node in the snapshots with named edges
MaxNodeEdges == 2

\* snapshots without edges: every node a String or an Object, with any name
InitStrings ==
    /\ pc = "snapshot"
    /\ \E types \in [Nodes -> {NodeString, NodeObject}] :
          \E names \in [Nodes -> NameIndexes] :
              \E sizes \in {PairedSizes, DefaultSizes} :
                  snap = NamedSnapshot(types, names, sizes, SnapshotStrings)
    /\ graph = NoValue
    /\ roots = <<>>
    /\ ltOut = NoValue
    /\ tree = NoValue
    /\ compact = NoValue
    /\ rsOut = NoValue
    /\ analysis = NoValue

\* nodes 0 and 1 are Objects, the other nodes Strings
ObjectPairTypes == [n \in Nodes |-> IF n < 2 THEN NodeObject ELSE NodeString]

\* snapshots of two Object nodes with one of two names each, and Strings
InitObjects ==
    /\ pc = "snapshot"
    /\ \E names \in [Nodes -> {1, 2}] :
          /\ \A n \in Nodes : n >= 2 => names[n] = 1
          /\ snap = NamedSnapshot(ObjectPairTypes, names, PairedSizes, SnapshotStrings)
    /\ graph = NoValue
    /\ roots = <<>>
    /\ ltOut = NoValue
    /\ tree = NoValue
    /\ compact = NoValue
    /\ rsOut = NoValue
    /\ analysis = NoValue

\* the snapshot grows by one named edge, appended to the block of `from`
AddNamedEdge(sources, typs, names, targets) ==
    /\ pc = "snapshot"
    /\ \E from \in sources, typ \in typs, name \in names, to \in targets :
          /\ from >= LastSource(snap)
          /\ snap.nodes[from].edge_count < MaxNodeEdges
          /\ snap' = SnapshotWithNamedEdge(snap, from, typ, name, to)
    /\ UNCHANGED <<pc, graph, roots, ltOut, tree, compact, rsOut, analysis>>

\* GraphBuilder on a snapshot with names
BuildNamed ==
    /\ pc = "snapshot"
    /\ compact' = NamedCompactGraphFrom(snap)
    /\ pc' = "compact"
    /\ UNCHANGED <<snap, graph, roots, ltOut, tree, rsOut, analysis>>

\* DuplicateAnalyzer::new(graph, flag).find_duplicates(); each of the two
\* hash maps is iterated in some order of its keys
FindDuplicates ==
    /\ pc = "compact"
    /\ \E flag \in BOOLEAN :
          \E string_order \in Orderings(DOMAIN string_hash_map(compact)) :
              \E object_order \in Orderings(DOMAIN object_hash_map(compact, flag)) :
                  analysis' = find_duplicates(compact, flag, string_order, object_order)
    /\ pc' = "duplicates"
    /\ UNCHANGED <<snap, graph, roots, ltOut, tree, compact, rsOut>>

\* snapshots without edges: every node a hidden class (type 4) or an Object
InitHidden ==
    /\ pc = "snapshot"
    /\ \E types \in [Nodes -> {NodeCode, NodeObject}] :
          \E names \in [Nodes -> NameIndexes] :
              \E sizes \in {PairedSizes, DefaultSizes} :
                  snap = NamedSnapshot(types, names, sizes, SnapshotStrings)
    /\ graph = NoValue
    /\ roots = <<>>
    /\ ltOut = NoValue
    /\ tree = NoValue
    /\ compact = NoValue
    /\ rsOut = NoValue
    /\ analysis = NoValue

\* HiddenClassAnalyzer::new(graph).analyze(); the map is iterated in some
\* order of its keys
Analyze ==
    /\ pc = "compact"
    /\ \E order \in Orderings(DOMAIN type_to_hidden_classes(compact)) :
          analysis' = [groups |-> analyze(compact, order)]
    /\ pc' = "hidden_classes"
    /\ UNCHANGED <<snap, graph, roots, ltOut, tree, compact, rsOut>>

NextHidden == \/ BuildNamed \/ Analyze

SpecHidden == InitHidden /\ [][NextHidden]_vars

\* find_root_paths(&graph, root) for some root
FindRootPaths ==
    /\ pc = "graph"
    /\ \E root \in Nodes :
          /\ roots' = <<root>>
          /\ analysis' = [paths |-> find_root_paths(graph, root)]
    /\ pc' = "paths"
    /\ UNCHANGED <<snap, graph, ltOut, tree, compact, rsOut>>

\* root_paths.paths_to(node, &graph) for some node
PathsTo ==
    /\ pc = "paths"
    /\ \E node \in Nodes :
          analysis' = [paths  |-> analysis.paths,
                       query  |-> node,
                       result |-> paths_to(analysis.paths, node, graph)]
    /\ pc' = "queried"
    /\ UNCHANGED <<snap, graph, roots, ltOut, tree, compact, rsOut>>

NextPaths ==
    \/ AddEdge({EdgeProperty}, MaxEdgesShort)
    \/ Load
    \/ FindRootPaths
    \/ PathsTo

SpecPaths == Init /\ [][NextPaths]_vars

\* largest number of edges of a snapshot searched for retention paths
MaxPathEdges == 3
\* largest max_paths given to find_paths, apart from TenPaths
MaxPathsLimit == 2
\* the max_paths of find_paths(t, 10)
TenPaths == 10

\* snapshots without edges: node 0 is a synthetic root, every other node a
\* synthetic root or an Object
InitRoots ==
    /\ pc = "snapshot"
    /\ \E types \in [Nodes -> {NodeSynthetic, NodeObject}] :
          /\ types[0] = NodeSynthetic
          /\ snap = EmptySnapshot(DefaultSizes, types)
    /\ graph = NoValue
    /\ roots = <<>>
    /\ ltOut = NoValue
    /\ tree = NoValue
    /\ compact = NoValue
    /\ rsOut = NoValue
    /\ analysis = NoValue

\* RetentionPathFinder::new(&graph).find_paths(target, max_paths)
FindPaths ==
    /\ pc = "compact"
    /\ \E target \in Nodes, max_paths \in (0 .. MaxPathsLimit) \cup {TenPaths} :
          analysis' = [target    |-> target,
                       max_paths |-> max_paths,
                       paths     |-> find_paths(compact, target, max_paths)]
    /\ pc' = "found"
    /\ UNCHANGED <<snap, graph, roots, ltOut, tree, compact, rsOut>>

NextFinder ==
    \/ AddEdge({EdgeProperty}, MaxPathEdges)
    \/ Build
    \/ FindPaths

SpecFinder == InitRoots /\ [][NextFinder]_vars

\* largest number of paths given to filter_subset_paths
MaxFilterPaths == 3
\* largest number of nodes of such a path
MaxFilterPathLen == 3
\* number of NodeIds the nodes of such paths are drawn from
FilterNodeCount == 3

\* the node sequences of paths: a RetentionPath has at least one node
FilterNodeSeqs ==
    UNION {[1 .. len -> NodeIds(FilterNodeCount)] : len \in 1 .. MaxFilterPathLen}

\* a list of RetentionPaths, as collected for one duplicate group
InitFilter ==
    /\ pc = "paths"
    /\ \E count \in 0 .. MaxFilterPaths :
          \E seqs \in [1 .. count -> FilterNodeSeqs] :
              analysis = [input |-> [k \in 1 .. count |->
                                        [length |-> Len(seqs[k]), nodes |-> seqs[k]]]]
    /\ snap = NoValue
    /\ graph = NoValue
    /\ roots = <<>>
    /\ ltOut = NoValue
    /\ tree = NoValue
    /\ compact = NoValue
    /\ rsOut = NoValue

\* filter_subset_paths(&mut paths)
FilterSubsetPaths ==
    /\ pc = "paths"
    /\ analysis' = [input  |-> analysis.input,
                    output |-> filter_subset_paths(analysis.input)]
    /\ pc' = "filtered"
    /\ UNCHANGED <<snap, graph, roots, ltOut, tree, compact, rsOut>>

NextFilter == FilterSubsetPaths

SpecFilter == InitFilter /\ [][NextFilter]_vars

\* largest number of edges of a snapshot that may be malformed
MaxLoadEdges == 2

\* snapshots without edges whose nodes are Objects or carry a type tag that
\* is no NodeType ordinal, and whose header states the number of node tuples
\* or one less or one more
InitTags ==
    /\ pc = "snapshot"
    /\ \E types \in [Nodes -> {NodeObject, NodeTypeCount}],
          node_count \in NodeCount - 1 .. NodeCount + 1 :
          snap = [EmptySnapshot(DefaultSizes, types)
                      EXCEPT !.snapshot.node_count = node_count]
    /\ graph = NoValue
    /\ roots = <<>>
    /\ ltOut = NoValue
    /\ tree = NoValue
    /\ compact = NoValue
    /\ rsOut = NoValue
    /\ analysis = NoValue

\* the snapshot grows by one edge whose type tag may be no EdgeType ordinal
\* and whose to_node may lie behind the last node
AddAnyEdge ==
    /\ pc = "snapshot"
    /\ Len(snap.edges) < MaxLoadEdges
    /\ CountedEdges(snap) < MaxLoadEdges
    /\ \E from \in Nodes, to \in 0 .. NodeCount, typ \in {EdgeProperty, EdgeTypeCount} :
          /\ from >= LastSource(snap)
          /\ snap' = SnapshotWithEdge(snap, from, typ, to)
    /\ UNCHANGED <<pc, graph, roots, ltOut, tree, compact, rsOut, analysis>>

\* the edge array grows by one tuple that no node counts
AddUncountedEdge ==
    /\ pc = "snapshot"
    /\ Len(snap.edges) < MaxLoadEdges
    /\ \E to \in 0 .. NodeCount, typ \in {EdgeProperty, EdgeTypeCount} :
          snap' = SnapshotWithUncountedEdge(snap, typ, to)
    /\ UNCHANGED <<pc, graph, roots, ltOut, tree, compact, rsOut, analysis>>

\* a node's edge_count grows by one without an edge tuple
CountMissingEdge ==
    /\ pc = "snapshot"
    /\ CountedEdges(snap) < MaxLoadEdges
    /\ \E from \in Nodes : snap' = SnapshotWithMissingEdge(snap, from)
    /\ UNCHANGED <<pc, graph, roots, ltOut, tree, compact, rsOut, analysis>>

\* V8HeapGraph::from(snapshot), which may panic
TryLoad ==
    /\ pc = "snapshot"
    /\ graph' = V8HeapGraphTryFrom(snap)
    /\ pc' = "graph"
    /\ UNCHANGED <<snap, roots, ltOut, tree, compact, rsOut, analysis>>

\* a later analysis reads the type of a node or of an edge of the loaded
\* graph: Node::typ() or Edge::typ(), which panic on an unknown tag
ReadTypes ==
    /\ pc = "graph"
    /\ graph.status = "ok"
    /\ \/ \E n \in DOMAIN graph.graph.nodes :
             analysis' = node_typ(graph.graph, n)
       \/ \E e \in DOMAIN graph.graph.edges.types :
             analysis' = edge_typ(graph.graph, e - 1)
    /\ pc' = "typ"
    /\ UNCHANGED <<snap, graph, roots, ltOut, tree, compact, rsOut>>

NextLoad ==
    \/ AddAnyEdge \/ AddUncountedEdge \/ CountMissingEdge \/ TryLoad \/ Build
    \/ ReadTypes

SpecLoad == InitTags /\ [][NextLoad]_vars

\* The explorer: a UI tree of UiNodeCount nodes, each node's parent an earlier
\* node, children in the order of their ids; the terminal leaves the tree
\* between 0 and MaxUiHeight rows.
UiNodeCount == 4
MaxUiHeight == 2
MaxInspectorScroll == 2
UiNodes == 0 .. UiNodeCount - 1

RECURSIVE UiChildren(_, _, _)
UiChildren(parent, node, from) ==
    IF from >= UiNodeCount THEN <<>>
    ELSE (IF parent[from] = node THEN <<from>> ELSE <<>>)
         \o UiChildren(parent, node, from + 1)

UiTrees ==
    {[node \in UiNodes |-> UiChildren(parent, node, 1)] :
        parent \in {p \in [1 .. UiNodeCount - 1 -> UiNodes] :
                       \A n \in 1 .. UiNodeCount - 1 : p[n] < n}}

InitExplorer ==
    /\ pc = "explorer"
    /\ \E root \in UiTrees : analysis = ExplorerStateNew(root)
    /\ snap = NoValue
    /\ graph = NoValue
    /\ roots = <<>>
    /\ ltOut = NoValue
    /\ tree = NoValue
    /\ compact = NoValue
    /\ rsOut = NoValue

Running == pc \in {"explorer", "drawn", "moved", "handled"}

\* explore_graph's loop: draw, then handle_input
Draw ==
    /\ pc \in {"explorer", "moved", "handled"}
    /\ \E frame_height \in 0 .. MaxUiHeight, overflow_checks \in BOOLEAN :
          LET st == draw(analysis, frame_height, overflow_checks)
          IN  /\ analysis' = st
              /\ pc' = IF st.panic # NoPanic THEN "panic" ELSE "drawn"
    /\ UNCHANGED <<snap, graph, roots, ltOut, tree, compact, rsOut>>

HandleInput ==
    /\ pc = "drawn"
    /\ \E key \in Keys, overflow_checks \in BOOLEAN :
          LET st == handle_input(analysis, key, overflow_checks)
          IN  /\ st.inspector_scroll_offset <= MaxInspectorScroll
              /\ analysis' = st
              /\ pc' = IF st.panic # NoPanic THEN "panic"
                       ELSE IF key = "q" THEN "quit"
                       ELSE IF key \in MoveKeys /\ analysis.focus = "Tree"
                            THEN "moved"
                       ELSE "handled"
    /\ UNCHANGED <<snap, graph, roots, ltOut, tree, compact, rsOut>>

NextExplorer == Draw \/ HandleInput

SpecExplorer == InitExplorer /\ [][NextExplorer]_vars

NextStrings == \/ BuildNamed \/ FindDuplicates

SpecStrings == InitStrings /\ [][NextStrings]_vars

NextObjects ==
    \/ AddNamedEdge({0, 1}, {EdgeProperty, EdgeHidden}, {1, 2}, {2, 3})
    \/ BuildNamed
    \/ FindDuplicates

SpecObjects == InitObjects /\ [][NextObjects]_vars

(***************************************************************************)
(* Snapshots derived from a snapshot, used to state the claims.            *)
(***************************************************************************)
\* the node whose edge block holds the i-th edge tuple of the snapshot
SnapshotEdgeSource(s, i) ==
    CHOOSE n \in Nodes :
        LET before == SumOver([m \in Nodes |-> s.nodes[m].edge_count], 0 .. (n - 1))
        IN before < i /\ i <= before + s.nodes[n].edge_count

SingleRoot == Len(roots) = 1
Ran == pc \in {"idom", "tree"}
ReachableFromRoots == Reachable(graph, Range(roots))

(***************************************************************************)
(* C1: for every graph and every single root r, lengauer_tarjan returns,   *)
(* for each node n # r reachable from r through successors, the true       *)
(* immediate dominator of n: the strict dominator of n that every other    *)
(* strict dominator of n dominates.                                        *)
(***************************************************************************)
C1_TrueImmediateDominators ==
    (Ran /\ SingleRoot) =>
        /\ ltOut.status = "ok"
        /\ \A n \in ReachableFromRoots \ {roots[1]} :
              /\ n \in DOMAIN ltOut.idom
              /\ IsImmediateDominator(graph, roots[1], ltOut.idom[n], n)

\* a run in which some node's immediate dominator is neither its DFS parent
\* candidate nor any of its predecessors (the diamond of scenario A)
C1_Witness ==
    /\ pc = "idom" /\ SingleRoot /\ ltOut.status = "ok"
    /\ \E n \in DOMAIN ltOut.idom :
          /\ ltOut.idom[n] \notin Range(predecessors(graph, n))
          /\ Cardinality(Range(predecessors(graph, n))) >= 2

(***************************************************************************)
(* C2: the map returned by lengauer_tarjan(graph, [root]) has an entry for *)
(* every node reachable from root, the root included, and the root's entry *)
(* is root -> root.                                                        *)
(***************************************************************************)
C2_RootHasSelfEntry ==
    (Ran /\ SingleRoot /\ ltOut.status = "ok") =>
        /\ \A n \in ReachableFromRoots : n \in DOMAIN ltOut.idom
        /\ roots[1] \in DOMAIN ltOut.idom
        /\ ltOut.idom[roots[1]] = roots[1]

(***************************************************************************)
(* C3 (as claimed): for every list of two distinct roots lengauer_tarjan   *)
(* runs to completion (no array is indexed with NodeId::MAX) and returns   *)
(* an immediate dominator for every non-root node reachable from a root.   *)
(***************************************************************************)
C3_MultipleRootsComplete ==
    (Ran /\ Len(roots) >= 2) =>
        /\ ltOut.status = "ok"
        /\ \A n \in ReachableFromRoots \ Range(roots) : n \in DOMAIN ltOut.idom

(***************************************************************************)
(* C4: no node unreachable from the given root is a key of the returned    *)
(* map, even when it has edges into reachable nodes.                       *)
(***************************************************************************)
C4_UnreachableNotKeys ==
    (Ran /\ SingleRoot /\ ltOut.status = "ok") =>
        DOMAIN ltOut.idom \subseteq ReachableFromRoots

\* scenario C: an unreachable node points into a node the root reaches
C4_Witness ==
    /\ pc = "idom" /\ SingleRoot /\ ltOut.status = "ok"
    /\ \E u \in Nodes \ ReachableFromRoots, n \in DOMAIN ltOut.idom :
          /\ u \in Range(predecessors(graph, n))
          /\ ltOut.idom[n] = roots[1]
          /\ u \notin DOMAIN ltOut.idom

(***************************************************************************)
(* C6: after tree_from_immediate_dominators(idom, graph), for the idom map *)
(* that lengauer_tarjan computed from any root, every node n of the        *)
(* dominator tree (the root and the keys of the map) satisfies             *)
(* retained_size(n) = self_size(n) + the sum of retained_size(c) over the  *)
(* dominator children c of n.                                              *)
(***************************************************************************)
TreeNodes == {roots[1]} \cup DOMAIN ltOut.idom
ChildrenRetained(n) ==
    SeqSum([i \in DOMAIN ChildrenOf(tree, n) |-> retained_size(tree, ChildrenOf(tree, n)[i])])

C6_RetainedSizeEquation ==
    pc = "tree" =>
        /\ ~tree.diverged
        /\ \A n \in TreeNodes :
              retained_size(tree, n) = self_size_for(graph, n) + ChildrenRetained(n)

\* the tree was built from the idom map of the root that
\* tree_from_immediate_dominators starts its traversal at
FromDesignatedRoot == pc = "tree" /\ roots = <<DesignatedRoot>>

(***************************************************************************)
(* C7: when the idom map computed by lengauer_tarjan from the designated   *)
(* root is turned into a DominatorTree, retained_size(root) is the sum of  *)
(* self_size(n) over all nodes n reachable from that root.                 *)
(***************************************************************************)
C7_RootRetainsReachable ==
    FromDesignatedRoot =>
        retained_size(tree, DesignatedRoot) =
            SumOver([n \in Nodes |-> self_size_for(graph, n)], ReachableFromRoots)

\* the root dominates two or more nodes directly and some node is unreachable
C7_Witness ==
    /\ FromDesignatedRoot
    /\ Len(ChildrenOf(tree, DesignatedRoot)) >= 2
    /\ ReachableFromRoots # Nodes
    /\ retained_size(tree, DesignatedRoot) > self_size_for(graph, DesignatedRoot)

(***************************************************************************)
(* C8: after tree_from_immediate_dominators, retained_size(n) >=           *)
(* self_size(n) for every NodeId n in [0, node_count).                     *)
(***************************************************************************)
C8_EveryNodeRetainsSelf ==
    pc = "tree" =>
        \A n \in Nodes : retained_size(tree, n) >= self_size_for(graph, n)

(***************************************************************************)
(* The retained sizes of calculate_retained_sizes are measured against     *)
(* dominance from the single GC root over the edges of the snapshot.       *)
(***************************************************************************)
Retained == pc = "retained"
GcRoot == compact.gc_roots[1]
SnapshotGraph == V8HeapGraphFrom(snap)
DominatedBy(n) ==
    {m \in rsOut.reachable : Dominates(SnapshotGraph, GcRoot, n, m)}

(***************************************************************************)
(* C9 (as claimed): calculate_retained_sizes gives each node reachable     *)
(* from the GC root an owned size equal to the total self size of the      *)
(* nodes it dominates, whatever the NodeIds of the dominated nodes are     *)
(* relative to their dominator.                                            *)
(***************************************************************************)
C9_OwnedIsDominatedSize ==
    Retained =>
        /\ ~rsOut.hang
        /\ \A n \in rsOut.reachable :
              /\ n \in DOMAIN rsOut.sizes
              /\ rsOut.sizes[n].owned =
                    SumOver([m \in Nodes |-> compact.node_sizes[m]], DominatedBy(n))

(***************************************************************************)
(* C10 (as claimed): with one GC root the iterative solver reaches a fixed *)
(* point in which every non-root reachable node has the immediate          *)
(* dominator lengauer_tarjan assigns it, for every order in which the      *)
(* reachable set is iterated.                                              *)
(***************************************************************************)
C10_IterativeEqualsLengauerTarjan ==
    Retained =>
        /\ ~rsOut.hang
        /\ LET lt == lengauer_tarjan(SnapshotGraph, compact.gc_roots)
           IN /\ lt.status = "ok"
              /\ \A n \in rsOut.reachable \ {GcRoot} :
                    /\ n \in DOMAIN rsOut.dominators
                    /\ n \in DOMAIN lt.idom
                    /\ rsOut.dominators[n] = lt.idom[n]

(***************************************************************************)
(* C11: the children map built by tree_from_immediate_dominators is the    *)
(* exact inverse of the idom map: every entry n -> d with n # root puts n  *)
(* exactly once in children[d] and in no other children list, and the      *)
(* (child, parent) pairs of children are the entries of the idom map       *)
(* (apart from the root's self-entry).                                     *)
(***************************************************************************)
TreeBuilt == pc = "tree"
Occurrences(s, x) == Cardinality({i \in DOMAIN s : s[i] = x})
ChildParentPairs ==
    UNION {{<<tree.children[d][i], d>> : i \in DOMAIN tree.children[d]} :
              d \in DOMAIN tree.children}
IdomEntries == {<<n, ltOut.idom[n]>> : n \in DOMAIN ltOut.idom}
RootSelfEntry == <<DesignatedRoot, DesignatedRoot>>

C11_ChildrenInverseOfIdom ==
    TreeBuilt =>
        /\ \A n \in DOMAIN ltOut.idom \ {DesignatedRoot} :
              /\ Occurrences(ChildrenOf(tree, ltOut.idom[n]), n) = 1
              /\ \A d \in DOMAIN tree.children \ {ltOut.idom[n]} :
                    n \notin Range(tree.children[d])
        /\ ChildParentPairs \ {RootSelfEntry} = IdomEntries \ {RootSelfEntry}

\* a map with the root's self-entry in which two nodes share an immediate
\* dominator that is not the root
C11_Witness ==
    /\ TreeBuilt
    /\ RootSelfEntry \in IdomEntries
    /\ \E n1 \in DOMAIN ltOut.idom, n2 \in DOMAIN ltOut.idom :
          /\ n1 # n2
          /\ ltOut.idom[n1] = ltOut.idom[n2]
          /\ ltOut.idom[n1] # DesignatedRoot

(***************************************************************************)
(* C12 (as claimed): when the idom map passed to                           *)
(* tree_from_immediate_dominators holds the root's self-entry, the root is *)
(* not placed in its own children list, and the retained-size traversal    *)
(* from the root terminates.                                               *)
(***************************************************************************)
C12_RootNotItsOwnChild ==
    (TreeBuilt /\ RootSelfEntry \in IdomEntries) =>
        /\ DesignatedRoot \notin Range(ChildrenOf(tree, DesignatedRoot))
        /\ ~tree.diverged


(***************************************************************************)
(* The duplicate groups of find_duplicates.                                *)
(***************************************************************************)
DuplicatesFound == pc = "duplicates"

DuplicateGroups == Range(analysis.all)

(***************************************************************************)
(* C13: every DuplicateGroup returned by the analyzer satisfies            *)
(* total_wasted = (count - 1) * size_per_object, node_ids.len() = count    *)
(* and count >= 2.                                                         *)
(***************************************************************************)
C13_GroupArithmetic ==
    DuplicatesFound =>
        \A g \in DuplicateGroups :
            /\ g.total_wasted = (g.count - 1) * g.size_per_object
            /\ Len(g.node_ids) = g.count
            /\ g.count >= 2

\* C13 witness: a group of three nodes is returned, wasting two of them
C13_Witness ==
    /\ DuplicatesFound
    /\ \E g \in DuplicateGroups :
          /\ g.count = 3
          /\ g.size_per_object > 0
          /\ g.total_wasted = 2 * g.size_per_object


(***************************************************************************)
(* The strings of the snapshot: the content a node's name stands for, and  *)
(* the String nodes that carry a content.                                  *)
(***************************************************************************)
NameContent(n) == StringTableGet(snap.strings, snap.nodes[n].name)

Carriers(content) ==
    {n \in DOMAIN snap.nodes : /\ snap.nodes[n].typ = NodeString
                               /\ NameContent(n) = content}

DuplicatedContents ==
    {c \in Range(snap.strings) : Cardinality(Carriers(c)) >= 2}

(***************************************************************************)
(* C14: find_duplicate_strings returns exactly one group for every string  *)
(* content carried by two or more nodes of type String, and the node_ids   *)
(* of that group are exactly the String nodes with that content; a node of *)
(* another type, and a String node whose content no other String node      *)
(* has, is in no group.                                                    *)
(***************************************************************************)
C14_OneGroupPerDuplicatedString ==
    DuplicatesFound =>
        /\ Len(analysis.strings) = Cardinality(DuplicatedContents)
        /\ \A c \in DuplicatedContents :
              \E i \in DOMAIN analysis.strings :
                  /\ Range(analysis.strings[i].node_ids) = Carriers(c)
                  /\ Len(analysis.strings[i].node_ids) = Cardinality(Carriers(c))
        /\ \A i \in DOMAIN analysis.strings :
              \E c \in DuplicatedContents :
                  Range(analysis.strings[i].node_ids) = Carriers(c)

\* C14 witness: a group of String nodes whose names are different entries of
\* the string table with the same content, while an Object node with that
\* content and a String node with another content are in no group
C14_Witness ==
    /\ DuplicatesFound
    /\ \E g \in Range(analysis.strings) :
          /\ \E a, b \in Range(g.node_ids) : snap.nodes[a].name # snap.nodes[b].name
          /\ \E o \in DOMAIN snap.nodes :
                /\ snap.nodes[o].typ = NodeObject
                /\ NameContent(o) = NameContent(g.representative)
    /\ \E s \in DOMAIN snap.nodes :
          /\ snap.nodes[s].typ = NodeString
          /\ NameContent(s) # None
          /\ \A g \in Range(analysis.strings) : s \notin Range(g.node_ids)


(***************************************************************************)
(* C15: the list returned by find_duplicates is sorted by total_wasted in  *)
(* non-increasing order.                                                   *)
(***************************************************************************)
C15_SortedByTotalWasted ==
    DuplicatesFound =>
        \A i, j \in DOMAIN analysis.all :
            i < j => analysis.all[i].total_wasted >= analysis.all[j].total_wasted

\* C15 witness: a string group wastes less than an object group, so the
\* concatenation of the two lists is not in order before the sort
C15_Witness ==
    /\ DuplicatesFound
    /\ \E s \in Range(analysis.strings), o \in Range(analysis.objects) :
          s.total_wasted < o.total_wasted
    /\ Len(analysis.all) = 2


(***************************************************************************)
(* C16 (as claimed): the order of the groups returned by find_duplicates   *)
(* is a function of the input graph alone, whatever the iteration order of *)
(* the hash maps: the same list comes out under every iteration order, and *)
(* groups of equal total_wasted are ordered by hash and then by ascending  *)
(* representative NodeId.                                                  *)
(***************************************************************************)
C16_OrderIsFunctionOfGraph ==
    DuplicatesFound =>
        /\ \A string_order \in Orderings(DOMAIN string_hash_map(compact)) :
              \A object_order \in Orderings(DOMAIN object_hash_map(
                                      compact, analysis.include_hidden_classes)) :
                  find_duplicates(compact, analysis.include_hidden_classes,
                                  string_order, object_order).all = analysis.all
        /\ \A i, j \in DOMAIN analysis.all :
              (i < j /\ analysis.all[i].total_wasted = analysis.all[j].total_wasted)
                  => \/ analysis.all[i].hash < analysis.all[j].hash
                     \/ /\ analysis.all[i].hash = analysis.all[j].hash
                        /\ analysis.all[i].representative
                               < analysis.all[j].representative


(***************************************************************************)
(* The edges of a node of the analysed graph, in stored order, split into  *)
(* Hidden edges and the others.                                            *)
(***************************************************************************)
StoredEdges(n) == compact_edge_records(compact, n)

HiddenEdges(n) == SelectSeq(StoredEdges(n), LAMBDA e : e.edge_type = EdgeHidden)

OtherEdges(n) == SelectSeq(StoredEdges(n), LAMBDA e : e.edge_type # EdgeHidden)

SameMultiset(s, t) ==
    \A x \in Range(s) \cup Range(t) : Occurrences(s, x) = Occurrences(t, x)

ObjectNodes == {n \in DOMAIN compact.node_types : compact.node_types[n] = NodeObject}

\* two Object nodes of the same name whose edges differ only in Hidden edges
DifferOnlyInHiddenEdges(a, b) ==
    /\ a # b
    /\ compact_node_name(compact, a) = compact_node_name(compact, b)
    /\ OtherEdges(a) = OtherEdges(b)
    /\ ~SameMultiset(HiddenEdges(a), HiddenEdges(b))

InSameGroup(groups, a, b) ==
    \E g \in Range(groups) : {a, b} \subseteq Range(g.node_ids)

(***************************************************************************)
(* C17: two Object nodes with the same name whose edges differ only in     *)
(* Hidden-type edges get the same hash and fall in the same group when     *)
(* include_hidden_classes is false, and get different hashes and fall in   *)
(* different groups when it is true.                                       *)
(***************************************************************************)
C17_HiddenEdgesCountOnlyWhenIncluded ==
    DuplicatesFound =>
        \A a, b \in ObjectNodes :
            DifferOnlyInHiddenEdges(a, b) =>
                /\ hash_object(compact, FALSE, a) = hash_object(compact, FALSE, b)
                /\ hash_object(compact, TRUE, a) # hash_object(compact, TRUE, b)
                /\ IF analysis.include_hidden_classes
                   THEN ~InSameGroup(analysis.objects, a, b)
                   ELSE InSameGroup(analysis.objects, a, b)

\* C17 witness: hidden classes are not included, and a group holds a node
\* with a Property edge and a Hidden edge together with a node that has the
\* Property edge alone
C17_Witness ==
    /\ DuplicatesFound
    /\ ~analysis.include_hidden_classes
    /\ \E a, b \in ObjectNodes :
          /\ DifferOnlyInHiddenEdges(a, b)
          /\ Len(OtherEdges(a)) = 1
          /\ Len(HiddenEdges(a)) = 1
          /\ Len(HiddenEdges(b)) = 0
          /\ InSameGroup(analysis.all, a, b)


(***************************************************************************)
(* C18 (as claimed): the structural hash of an object depends only on its  *)
(* name and on the multiset of its (edge_type, name_or_index, target)      *)
(* triples, not on the order in which the edges are stored: two Object     *)
(* nodes with the same name and the same multiset of edge triples have the *)
(* same hash and fall in the same group.                                   *)
(***************************************************************************)
C18_HashIgnoresStoredOrder ==
    DuplicatesFound =>
        \A a, b \in ObjectNodes :
            ( /\ a # b
              /\ compact_node_name(compact, a) = compact_node_name(compact, b)
              /\ SameMultiset(StoredEdges(a), StoredEdges(b)) )
                => /\ hash_object(compact, analysis.include_hidden_classes, a)
                          = hash_object(compact, analysis.include_hidden_classes, b)
                   /\ InSameGroup(analysis.objects, a, b)


(***************************************************************************)
(* The hidden classes of the snapshot: the nodes of type 4 with a name.    *)
(***************************************************************************)
Analyzed == pc = "hidden_classes"

HiddenClassesNamed(content) ==
    {n \in DOMAIN snap.nodes : /\ snap.nodes[n].typ = NodeCode
                               /\ NameContent(n) = content}

HiddenClassNames ==
    {c \in Range(snap.strings) : HiddenClassesNamed(c) # {}}

(***************************************************************************)
(* C19: HiddenClassAnalyzer::analyze returns one group per distinct name   *)
(* among the hidden-class-typed nodes; the group's hidden_class_count is   *)
(* the number of such nodes with that name, its total_hidden_class_memory  *)
(* the sum of their self sizes, and the groups are ordered by total memory *)
(* in non-increasing order.                                                *)
(***************************************************************************)
C19_OneGroupPerHiddenClassName ==
    Analyzed =>
        /\ Len(analysis.groups) = Cardinality(HiddenClassNames)
        /\ \A c \in HiddenClassNames :
              \E i \in DOMAIN analysis.groups :
                  /\ analysis.groups[i].object_type = c
                  /\ Range(analysis.groups[i].hidden_classes) = HiddenClassesNamed(c)
                  /\ analysis.groups[i].hidden_class_count
                         = Cardinality(HiddenClassesNamed(c))
                  /\ analysis.groups[i].total_hidden_class_memory
                         = SumOver([n \in DOMAIN snap.nodes |-> snap.nodes[n].self_size],
                                   HiddenClassesNamed(c))
        /\ \A i, j \in DOMAIN analysis.groups :
              i < j => analysis.groups[i].total_hidden_class_memory
                           >= analysis.groups[j].total_hidden_class_memory

\* C19 witness: two groups; the second holds two hidden classes whose names
\* are different entries of the string table with the same content, and the
\* first, of one hidden class, has more memory
C19_Witness ==
    /\ Analyzed
    /\ Len(analysis.groups) = 2
    /\ analysis.groups[1].hidden_class_count = 1
    /\ analysis.groups[2].hidden_class_count = 2
    /\ analysis.groups[1].total_hidden_class_memory
           > analysis.groups[2].total_hidden_class_memory
    /\ \E a, b \in Range(analysis.groups[2].hidden_classes) :
          snap.nodes[a].name # snap.nodes[b].name


(***************************************************************************)
(* Root paths: a path from root r to node n is a chain of edges of the     *)
(* graph that starts at r and ends at n; the chain without edges starts    *)
(* and ends at r.                                                          *)
(***************************************************************************)
Queried == pc = "queried"

IsRootPath(g, r, n, path) ==
    IF path = <<>> THEN n = r
    ELSE /\ \A i \in DOMAIN path : path[i] \in 0 .. (Len(g.edges.to_nodes) - 1)
         /\ from_node(g, path[1]) = r
         /\ \A i \in 1 .. (Len(path) - 1) :
               to_node(g, path[i]) = from_node(g, path[i + 1])
         /\ to_node(g, path[Len(path)]) = n

(***************************************************************************)
(* C20 (as claimed): for every graph, every root r passed to               *)
(* find_root_paths and every node n, each path returned by paths_to(n) is  *)
(* a chain of existing edges from r to n: its first edge leaves r, each    *)
(* edge starts where the edge before it ends, and its last edge ends at n. *)
(***************************************************************************)
C20_PathsLeadFromRootToNode ==
    Queried =>
        \A k \in DOMAIN analysis.result.paths :
            IsRootPath(graph, roots[1], analysis.query, analysis.result.paths[k])


(***************************************************************************)
(* Retention paths: the edges and GC roots of the searched graph, and      *)
(* reachability from the GC roots.                                         *)
(***************************************************************************)
Found == pc = "found"

HasEdge(a, b) ==
    \E k \in DOMAIN compact_typed_edges(compact, a) :
        compact_typed_edges(compact, a)[k].target = b

GcRoots == Range(compact.gc_roots)

RECURSIVE ReachedFrom(_)
ReachedFrom(S) ==
    LET more == S \cup {b \in DOMAIN compact.node_types : \E a \in S : HasEdge(a, b)}
    IN IF more = S THEN S ELSE ReachedFrom(more)

IsRetentionPath(path, target) ==
    /\ path.nodes # <<>>
    /\ path.nodes[1] \in GcRoots
    /\ path.nodes[Len(path.nodes)] = target
    /\ \A i \in 1 .. (Len(path.nodes) - 1) : HasEdge(path.nodes[i], path.nodes[i + 1])

(***************************************************************************)
(* C21: every RetentionPath returned by find_paths(target, max_paths)      *)
(* starts at a GC root, ends at target, and has an edge of the graph       *)
(* between each pair of consecutive nodes; when target is not reachable    *)
(* from any GC root the result is empty.                                   *)
(***************************************************************************)
C21_PathsLeadFromGcRootToTarget ==
    Found =>
        /\ \A k \in DOMAIN analysis.paths :
              IsRetentionPath(analysis.paths[k], analysis.target)
        /\ analysis.target \notin ReachedFrom(GcRoots) => analysis.paths = <<>>

\* C21 witness: a path over two edges is returned
C21_Witness ==
    /\ Found
    /\ \E k \in DOMAIN analysis.paths :
          /\ Len(analysis.paths[k].nodes) = 3
          /\ analysis.paths[k].nodes[1] # analysis.paths[k].nodes[3]


(***************************************************************************)
(* Paths from distinct GC roots: the target is reached from each of two    *)
(* GC roots without passing through the other.                             *)
(***************************************************************************)
RECURSIVE ReachedAvoiding(_, _)
ReachedAvoiding(S, avoid) ==
    LET more == S \cup {b \in DOMAIN compact.node_types \ avoid :
                           \E a \in S : HasEdge(a, b)}
    IN IF more = S THEN S ELSE ReachedAvoiding(more, avoid)

ReachedFromTwoRoots(t) ==
    /\ t \notin GcRoots
    /\ \E r1, r2 \in GcRoots :
          /\ r1 # r2
          /\ t \in ReachedAvoiding({r1}, {r2})
          /\ t \in ReachedAvoiding({r2}, {r1})

\* s occurs in t as a run of consecutive elements
IsContiguousSubsequence(s, t) ==
    \E off \in 0 .. (Len(t) - Len(s)) : \A i \in DOMAIN s : t[off + i] = s[i]

(***************************************************************************)
(* C22 (as claimed): when a target t is reachable from two distinct GC     *)
(* roots along different paths, find_paths(t, 10) returns at least two     *)
(* paths that start from distinct GC roots, neither of which is a          *)
(* contiguous subsequence of the other.                                    *)
(***************************************************************************)
C22_TwoPathsFromDistinctRoots ==
    (Found /\ analysis.max_paths = TenPaths /\ ReachedFromTwoRoots(analysis.target)) =>
        /\ Len(analysis.paths) >= 2
        /\ \E i, j \in DOMAIN analysis.paths :
              /\ analysis.paths[i].nodes[1] # analysis.paths[j].nodes[1]
              /\ ~IsContiguousSubsequence(analysis.paths[i].nodes, analysis.paths[j].nodes)
              /\ ~IsContiguousSubsequence(analysis.paths[j].nodes, analysis.paths[i].nodes)

(***************************************************************************)
(* C23 (as claimed): for every graph, every target and every value of      *)
(* max_paths, the number of paths returned by find_paths(target,           *)
(* max_paths) never exceeds max_paths.                                     *)
(***************************************************************************)
C23_AtMostMaxPaths ==
    Found => Len(analysis.paths) <= analysis.max_paths


(***************************************************************************)
(* Paths inside other paths.                                               *)
(***************************************************************************)
Filtered == pc = "filtered"

\* a is a strictly shorter contiguous subsequence of b
StrictlyInside(a, b) == Len(a) < Len(b) /\ IsContiguousSubsequence(a, b)

\* the input paths that are strictly inside no other input path, in input
\* order
MaximalInputPaths ==
    LET kept == SelectSeq([k \in 1 .. Len(analysis.input) |-> k],
                          LAMBDA i : \A j \in DOMAIN analysis.input :
                              j # i => ~StrictlyInside(analysis.input[i].nodes,
                                                       analysis.input[j].nodes))
    IN [k \in DOMAIN kept |-> analysis.input[kept[k]]]

\* s is t with some elements left out
RECURSIVE IsSubsequence(_, _)
IsSubsequence(s, t) ==
    IF s = <<>> THEN TRUE
    ELSE IF t = <<>> THEN FALSE
    ELSE IF Head(s) = Head(t) THEN IsSubsequence(Tail(s), Tail(t))
    ELSE IsSubsequence(s, Tail(t))

(***************************************************************************)
(* C24: after filter_subset_paths(paths) no remaining path's node sequence *)
(* is a strictly shorter contiguous subsequence of another remaining       *)
(* path's node sequence, and every input path that was not a strictly      *)
(* shorter contiguous subsequence of some other input path is still        *)
(* present, in its original relative order.                                *)
(***************************************************************************)
C24_OnlyContainedPathsRemoved ==
    Filtered =>
        /\ \A i, j \in DOMAIN analysis.output :
              i # j => ~StrictlyInside(analysis.output[i].nodes, analysis.output[j].nodes)
        /\ IsSubsequence(MaximalInputPaths, analysis.output)
        /\ IsSubsequence(analysis.output, analysis.input)

\* C24 witness: of three paths the middle one is removed; it lies inside the
\* last, and the first, though made of nodes of the last, is no run of it
C24_Witness ==
    /\ Filtered
    /\ Len(analysis.input) = 3
    /\ analysis.output = <<analysis.input[1], analysis.input[3]>>
    /\ StrictlyInside(analysis.input[2].nodes, analysis.input[3].nodes)
    /\ Len(analysis.input[1].nodes) = 2
    /\ Range(analysis.input[1].nodes) \subseteq Range(analysis.input[3].nodes)


(***************************************************************************)
(* C25 (as claimed): in every graph that loading returns                   *)
(* (V8HeapGraph::from, or GraphBuilder add_nodes/add_edges/finalize),      *)
(* every stored edge target is a valid NodeId (< node_count): a snapshot   *)
(* with an edge whose to_node divided by the node field count is           *)
(* >= node_count never yields a graph.                                     *)
(***************************************************************************)
C25_EdgeTargetsAreNodeIds ==
    /\ (pc = "graph" /\ graph.status = "ok") =>
           \A i \in DOMAIN graph.graph.edges.to_nodes :
               graph.graph.edges.to_nodes[i] < graph.graph.node_count
    /\ pc = "compact" =>
           \A i \in DOMAIN compact.edge_targets :
               compact.edge_targets[i] < compact_node_count(compact)

(***************************************************************************)
(* C26 (as claimed): loading a snapshot that contains a node whose type    *)
(* tag is not one of the 15 known node-type ordinals, or an edge whose     *)
(* type tag is not one of the 7 known edge-type ordinals, fails at load    *)
(* time: no graph is constructed with the unknown tag stored in it.        *)
(***************************************************************************)
C26_TypeTagsAreKnown ==
    /\ (pc = "graph" /\ graph.status = "ok") =>
           /\ \A n \in DOMAIN graph.graph.nodes : graph.graph.nodes[n].typ < NodeTypeCount
           /\ \A i \in DOMAIN graph.graph.edges.types :
                  graph.graph.edges.types[i] < EdgeTypeCount
    /\ pc = "compact" =>
           /\ \A n \in DOMAIN compact.node_types : compact.node_types[n] < NodeTypeCount
           /\ \A i \in DOMAIN compact.edge_types : compact.edge_types[i] < EdgeTypeCount


(***************************************************************************)
(* The edges of the snapshot from s to t, counted in the edge block of s.  *)
(***************************************************************************)
GraphLoaded == pc = "graph"

SnapshotEdgesFromTo(s, t) ==
    {i \in DOMAIN snap.edges : /\ SnapshotEdgeSource(snap, i) = s
                               /\ snap.edges[i].to_node = t * NodeStride}

\* the sources of the snapshot's edges into t, in ascending edge order
SourcesInEdgeOrder(t) ==
    LET into == SelectSeq([i \in 1 .. Len(snap.edges) |-> i],
                          LAMBDA i : snap.edges[i].to_node = t * NodeStride)
    IN [k \in DOMAIN into |-> SnapshotEdgeSource(snap, into[k])]

(***************************************************************************)
(* C27: after V8HeapGraph::from on a snapshot whose edge_count fields sum  *)
(* to the number of edges, inbound adjacency is the exact inverse of       *)
(* outbound adjacency: for all nodes s and t the number of occurrences of  *)
(* s in in_edges(t) equals the number of edges from s to t in the outbound *)
(* edge block of s, and the sources appear in in_edges(t) in ascending     *)
(* edge order.                                                             *)
(***************************************************************************)
C27_InEdgesInverseOfOutEdges ==
    GraphLoaded =>
        \A t \in DOMAIN snap.nodes :
            /\ \A s \in DOMAIN snap.nodes :
                  Occurrences(in_edges(graph, t), s)
                      = Cardinality(SnapshotEdgesFromTo(s, t))
            /\ in_edges(graph, t) = SourcesInEdgeOrder(t)

\* C27 witness: a node with two edges from one source and an edge from a
\* later source
C27_Witness ==
    /\ GraphLoaded
    /\ \E t \in DOMAIN snap.nodes :
          /\ Len(in_edges(graph, t)) = 3
          /\ in_edges(graph, t)[1] = in_edges(graph, t)[2]
          /\ in_edges(graph, t)[2] < in_edges(graph, t)[3]
          /\ t # 0


(***************************************************************************)
(* C28: for every edge id e in [0, edge_count), V8HeapGraph::edge(e)       *)
(* .from_node is the unique node s with                                    *)
(* node_out_edges[s] <= e < node_out_edges[s] + edge_count(s), also when   *)
(* nodes with zero outgoing edges (which share an offset with a            *)
(* neighbour) come before or after s.                                      *)
(***************************************************************************)
OwnsEdge(s, e) ==
    /\ graph.node_out_edges[s + 1] <= e
    /\ e < graph.node_out_edges[s + 1] + edge_count_for(graph, s)

C28_FromNodeOwnsEdge ==
    GraphLoaded =>
        \A e \in 0 .. (Len(graph.edges.to_nodes) - 1) :
            /\ from_node(graph, e) \in NodeIds(graph.node_count)
            /\ OwnsEdge(from_node(graph, e), e)
            /\ \A s \in NodeIds(graph.node_count) : OwnsEdge(s, e) => s = from_node(graph, e)

\* C28 witness: nodes 0 and 2 have no edges, nodes 1 and 3 have edges
C28_Witness ==
    /\ GraphLoaded
    /\ edge_count_for(graph, 0) = 0
    /\ edge_count_for(graph, 1) > 0
    /\ edge_count_for(graph, 2) = 0
    /\ edge_count_for(graph, 3) > 0
    /\ from_node(graph, 0) = 1
    /\ from_node(graph, Len(graph.edges.to_nodes) - 1) = 3


(***************************************************************************)
(* The nodes reachable from the root of the search over out-edges.         *)
(***************************************************************************)
RECURSIVE OutReach(_)
OutReach(S) ==
    LET more == S \cup {to_node(graph, e) :
                           e \in {x \in 0 .. (Len(graph.edges.to_nodes) - 1) :
                                     from_node(graph, x) \in S}}
    IN IF more = S THEN S ELSE OutReach(more)

(***************************************************************************)
(* C29 (as claimed): after find_root_paths(graph, root), for every root,   *)
(* paths_to(n) terminates for every node n; it returns exactly one path    *)
(* for each node reachable from root (the empty path for root itself, and  *)
(* for any other node the path through the inbound edge by which the       *)
(* search discovered it) and an empty list for each node unreachable from  *)
(* root.                                                                   *)
(***************************************************************************)
C29_OnePathPerReachableNode ==
    Queried =>
        /\ ~analysis.result.diverged
        /\ IF analysis.query \in OutReach({roots[1]})
           THEN /\ Len(analysis.result.paths) = 1
                /\ IsRootPath(graph, roots[1], analysis.query, analysis.result.paths[1])
                /\ analysis.query = roots[1] => analysis.result.paths[1] = <<>>
                /\ analysis.query # roots[1] =>
                       analysis.result.paths[1][Len(analysis.result.paths[1])]
                           = analysis.paths[analysis.query][1]
           ELSE analysis.result.paths = <<>>


(***************************************************************************)
(* C30.  In the dominator-tree explorer, after any sequence of key events  *)
(* from ExplorerState::new the selection is an index of flat_list and the  *)
(* scroll offset is at most the selection, so neither selected_node() nor  *)
(* draw's `selected - tree_scroll_offset` and slice can fail; and after a   *)
(* move, whenever height > 0, the selection lies inside the window, below  *)
(* tree_scroll_offset + height.                                            *)
(***************************************************************************)
Exploring == pc \in {"explorer", "drawn", "moved", "handled", "quit", "panic"}

SelectionPanics ==
    {"index out of bounds", "attempt to subtract with overflow",
     "slice index starts past its end"}

C30_SelectionStaysInsideListAndWindow ==
    Exploring =>
        /\ analysis.selected < Len(analysis.flat_list)
        /\ analysis.tree_scroll_offset <= analysis.selected
        /\ analysis.panic \notin SelectionPanics
        /\ (pc = "moved" /\ analysis.height > 0)
               => analysis.selected
                      < analysis.tree_scroll_offset + analysis.height

\* C30 witness: after a move in a list longer than the window, the window has
\* scrolled and the selection is its last row, on a node two levels below
\* the root.
C30_Witness ==
    /\ pc = "moved"
    /\ analysis.height > 0
    /\ Len(analysis.flat_list) > analysis.height
    /\ analysis.tree_scroll_offset > 0
    /\ analysis.selected = analysis.tree_scroll_offset + analysis.height - 1
    /\ analysis.flat_list[analysis.selected + 1].depth >= 2

====
